---- MODULE Spec2Model ----
(***************************************************************************)
(* Signal Execution & Risk Engine of fincs-bot-backend.                    *)
(*                                                                         *)
(* The model follows src/src/executor.py (execute_pending_signals, the     *)
(* sizing search _find_max_units, run_loop), src/src/storage.py (the       *)
(* executed_orders Ledger, baseline_units, daily_equity, parsed_events),   *)
(* src/src/scheduler.py (run_scheduler), src/src/api.py (bot_run_once),    *)
(* src/src/broker.py (get_broker) and src/src/brokers/saxo.py (the broker  *)
(* calls the engine makes).                                                *)
(*                                                                         *)
(* Numbers: equity, margin and prices are integers (money in account       *)
(* currency units); a percentage test "x > equity * 0.03" is modelled by   *)
(* the exact cross-multiplication "x * 100 > equity * 3".                  *)
(***************************************************************************)
EXTENDS Integers, Sequences, FiniteSets, TLC

\* Python None for an optional number (all modelled numbers are >= 0).
None == -1
\* Python None / missing value for an optional text field.
Null == "null"

(***************************************************************************)
(* Bounds of the model (not program constants).                            *)
(***************************************************************************)
\* Number of clock advances in one behaviour.
MaxTicks == 1
\* Number of scrapes in one behaviour.
MaxScrapes == 2
\* Largest ceiling (max_units) tried by the sizing-search specification.
MaxCeiling == 5
\* Largest margin value / equity value in the sizing-search specification.
MaxMargin == 2
\* Execution cycles begun in a run of the engine specifications.
MaxCycles == 2
\* max_total_units in the engine specifications (the default is 500000).
MaxTotalUnits == 2

(***************************************************************************)
(* Program constants.                                                      *)
(***************************************************************************)
\* executor.py:149  drawdown >= 0.05
DrawdownLimitPct == 5
\* executor.py:152  get_recent_executions(..., limit=3) and len(recent) == 3
BreakerWindow == 3
\* executor.py:262 and 393  order_rejections >= 3
RejectionLimit == 3
\* executor.py:353  api_errors >= 3
ApiErrorLimit == 3
\* executor.py:172  window_seconds=600
RecentWindowSeconds == 600
\* executor.py:360  margin_required > equity * 0.03
MarginLimitPct == 3
\* executor.py:330  risk_amount > equity * 0.01
RiskLimitPct == 1
\* executor.py:344  notional > equity * 0.10
ExposureLimitPct == 10
\* executor.py:293  len(distinct_open) >= 3
MaxOpenPositions == 3
\* executor.py:119  get_all_trading_events(conn, limit=500)
EventLimit == 500
\* executor.py:142  datetime.now(timezone.utc).date(): seconds per UTC day
DaySeconds == 86400

\* executor.py:26-30
ALLOWED_UICS == [i \in {"EURUSD", "USDJPY", "GBPUSD"} |->
                   CASE i = "EURUSD" -> 21
                     [] i = "USDJPY" -> 22
                     [] i = "GBPUSD" -> 23]

(***************************************************************************)
(* Small helpers.                                                          *)
(***************************************************************************)
Abs(x) == IF x < 0 THEN -x ELSE x

Min(a, b) == IF a < b THEN a ELSE b

\* Python round(n / d) for n >= 0, d > 0: round half to even.
RoundHalfEven(n, d) ==
    LET q == n \div d
        r == n % d
    IN  IF 2 * r < d THEN q
        ELSE IF 2 * r > d THEN q + 1
        ELSE IF q % 2 = 0 THEN q ELSE q + 1

\* The elements of seq that satisfy Test, in order.
RECURSIVE SelectSeqBy(_, _)
SelectSeqBy(seq, keep) ==
    IF seq = << >> THEN << >>
    ELSE IF Head(seq) \in keep
         THEN <<Head(seq)>> \o SelectSeqBy(Tail(seq), keep)
         ELSE SelectSeqBy(Tail(seq), keep)

\* seq reversed.
RECURSIVE Reverse(_)
Reverse(seq) ==
    IF seq = << >> THEN << >> ELSE Reverse(Tail(seq)) \o <<Head(seq)>>

\* The first n elements of seq (Python seq[:n]).
Take(seq, n) == SubSeq(seq, 1, Min(n, Len(seq)))

(***************************************************************************)
(* Baseline sizing search: executor.py _find_max_units.                    *)
(*                                                                         *)
(* The broker's answers are the inputs: quick is the answer of the         *)
(* precheck at max_units (line 64) and m[u] the answer of a precheck at    *)
(* size u inside the loop (line 72); an answer is a margin or None.  The   *)
(* result carries the sizes queried, in order.                             *)
(***************************************************************************)
\* What a search that asks for every size from 1 up would do.
search_loop_linear(m, equity, low, high, last_ok, probes) ==
    [result |-> last_ok, probes |-> probes \o [k \in 1 .. high |-> k]]

\* What a search that takes its upper bound on trust would return.
search_loop_trusting(m, equity, low, high, last_ok, probes) ==
    [result |-> high, probes |-> probes]

\* The while loop, lines 68-81.
RECURSIVE search_loop(_, _, _, _, _, _)
search_loop(m, equity, low, high, last_ok, probes) ==
    IF low > high
    THEN [result |-> last_ok, probes |-> probes]
    ELSE LET mid == (low + high) \div 2
         IN  IF mid = 0
             THEN [result |-> last_ok, probes |-> probes]
             ELSE LET margin == m[mid]
                      asked == Append(probes, mid)
                  IN  IF margin = None
                      THEN [result |-> last_ok, probes |-> asked]
                      ELSE IF margin <= equity
                           THEN search_loop(m, equity, mid + 1, high, mid, asked)
                           ELSE search_loop(m, equity, low, mid - 1, last_ok, asked)

\* What a slip that treats "nothing found" as a size of zero would return.
find_max_units_zero(quick, m, equity, max_units) ==
    IF max_units <= 0
    THEN [result |-> 0, probes |-> << >>]
    ELSE IF quick # None /\ quick <= equity
         THEN [result |-> max_units, probes |-> <<max_units>>]
         ELSE LET r == search_loop(m, equity, 0, max_units, None, <<max_units>>)
              IN  [result |-> IF r.result = None THEN 0 ELSE r.result,
                   probes |-> r.probes]

\* _find_max_units, lines 55-81.
find_max_units(quick, m, equity, max_units) ==
    IF max_units <= 0
    THEN [result |-> None, probes |-> << >>]
    ELSE IF quick # None /\ quick <= equity
         THEN [result |-> max_units, probes |-> <<max_units>>]
         ELSE search_loop(m, equity, 0, max_units, None, <<max_units>>)

\* The caller's use of the result, lines 276-282: None is the skip
\* "baseline unavailable", any other result is stored as the baseline.
resolve_fresh_baseline(found) ==
    IF found = None
    THEN [skip |-> "baseline unavailable", baseline_units |-> None]
    ELSE [skip |-> Null, baseline_units |-> found]

(***************************************************************************)
(* State.                                                                  *)
(***************************************************************************)
VARIABLES
    environ,          \* os.environ: SAXO_ENV and BOT_ENABLED
    settings,         \* runtime_config.load_settings(): the engine's arguments
    broker_factory,   \* what executor.get_broker resolves to (see get_broker)
    catalog,          \* the messages of the feed: segment_hash -> signal fields
    account,          \* the answers the broker's API can give in this deployment
    running,          \* settings["running"], the switch of POST /bot/start and /bot/stop
    stop_event,       \* api._stop_event is set
    now,              \* the UTC clock, in seconds
    ticks,            \* clock advances so far
    scrapes,          \* scrapes so far; the serial of a scrape stands for its scraped_at
    cycles,           \* execution cycles begun so far
    parsed_events,    \* storage: rows of parsed_events, in id order
    executed_orders,  \* storage: the Ledger, rows of executed_orders in id order
    baseline_units,   \* storage: (instrument, direction) -> units, None when absent
    daily_equity,     \* storage: UTC date -> equity, None when absent
    positions,        \* the broker's books: uic -> signed units
    orders,           \* every place_market_order call so far, in order
    pc,               \* per caller of run_execution_cycle: where it is
    local,            \* per caller: the locals of execute_pending_signals
    sz                \* one call of the sizing search: its inputs and what came of it

vars == <<environ, settings, broker_factory, catalog, account, running, stop_event,
          now, ticks, scrapes, cycles,
          parsed_events, executed_orders, baseline_units, daily_equity,
          positions, orders, pc, local, sz>>

\* What no step of a cycle changes: the deployment and the API's switches.
config_vars == <<environ, settings, broker_factory, catalog, account, running, stop_event>>

store_vars == <<executed_orders, baseline_units, daily_equity>>

\* The callers of run_execution_cycle: executor.run_loop, scheduler.run_scheduler
\* (the API's background thread) and the API handler bot_run_once.
Callers == {"run_loop", "run_scheduler", "bot_run_once"}

\* The supervising loops among them.
Loops == {"run_loop", "run_scheduler"}

Instruments == DOMAIN ALLOWED_UICS

Directions == {"BUY", "SELL"}

\* A uic outside ALLOWED_UICS, for a position the engine did not open.
OtherUic == 99

Uics == {ALLOWED_UICS[i] : i \in Instruments} \cup {OtherUic}

\* int(uic) fails on this value (a non-numeric text in the uic column).
BadUic == -2

\* The name of the only broker that gets past line 100.
BrokerName == "saxo"

(***************************************************************************)
(* storage.py                                                              *)
(***************************************************************************)
\* What a duplicate check that only counts filled orders would decide.
was_executed_filled(ledger, segment_hash) ==
    \E i \in 1 .. Len(ledger) :
        ledger[i].segment_hash = segment_hash /\ ledger[i].status = "filled"

\* was_executed, lines 414-420: a row for (segment_hash, broker) exists.
was_executed(ledger, segment_hash) ==
    \E i \in 1 .. Len(ledger) : ledger[i].segment_hash = segment_hash

\* was_executed_recent, lines 614-626:
\* datetime(created_at) >= datetime('now', '-<window> seconds').
was_executed_recent(ledger, segment_hash, clock, window_seconds) ==
    \E i \in 1 .. Len(ledger) :
        /\ ledger[i].segment_hash = segment_hash
        /\ ledger[i].created_at >= clock - window_seconds

\* What a write that is never committed would leave behind.
record_execution_lost(ledger, segment_hash, status, error_message, clock) == ledger

\* What an INSERT without the unique index would do: the row is added.
record_execution_append(ledger, segment_hash, status, error_message, clock) ==
    Append(ledger, [segment_hash |-> segment_hash, status |-> status,
                    error_message |-> error_message, created_at |-> clock])

\* record_execution, lines 393-411: INSERT OR REPLACE under the unique index
\* (segment_hash, broker) of lines 116-131: the row of the key, if any, is
\* deleted and the new row gets a fresh, larger id, so it is last in id order.
\* created_at is utcnow(); its only readers go through SQLite's datetime(),
\* which keeps whole seconds, so the row keeps the clock's second and the id
\* order keeps the order of writes inside one second.
record_execution(ledger, segment_hash, status, error_message, clock) ==
    LET others == {i \in 1 .. Len(ledger) : ledger[i].segment_hash # segment_hash}
        kept == SelectSeqBy([i \in 1 .. Len(ledger) |-> i], others)
    IN  Append([k \in 1 .. Len(kept) |-> ledger[kept[k]]],
               [segment_hash |-> segment_hash, status |-> status,
                error_message |-> error_message, created_at |-> clock])

\* get_recent_executions, lines 596-608: ORDER BY datetime(created_at) DESC
\* LIMIT ?.  The sort key is the second; SQLite's sorter returns rows of equal
\* key in the order of the table scan, which is ascending id.
get_recent_executions(ledger, limit) ==
    LET n == Len(ledger)
        rank(i) == Cardinality({j \in 1 .. n : ledger[j].created_at > ledger[i].created_at})
                   + Cardinality({j \in 1 .. i : ledger[j].created_at = ledger[i].created_at})
        at(k) == CHOOSE i \in 1 .. n : rank(i) = k
    IN  [k \in 1 .. Min(limit, n) |-> ledger[at(k)]]

\* What a lookup that falls back to one unit when no row exists would return.
get_baseline_units_default(table, instrument, direction) ==
    IF table[<<instrument, direction>>] = None THEN 1 ELSE table[<<instrument, direction>>]

\* get_baseline_units, lines 506-519.
get_baseline_units(table, instrument, direction) == table[<<instrument, direction>>]

\* set_baseline_units, lines 522-541.
set_baseline_units(table, instrument, direction, units) ==
    [table EXCEPT ![<<instrument, direction>>] = units]

\* What a close that forgets to clear the baselines would leave.
clear_baseline_units_kept(table, instrument) == table

\* clear_baseline_units, lines 544-564, called without a direction: every
\* row of the instrument is deleted.
clear_baseline_units(table, instrument) ==
    [k \in DOMAIN table |-> IF k[1] = instrument THEN None ELSE table[k]]

\* What a lookup that never finds the day's row would return.
get_daily_equity_absent(table, date_key) == None

\* get_daily_equity, lines 570-577.
get_daily_equity(table, date_key) == table[date_key]

\* set_daily_equity, lines 580-590.
set_daily_equity(table, date_key, equity) == [table EXCEPT ![date_key] = equity]

\* get_all_trading_events, lines 291-302: ORDER BY id DESC LIMIT ?.
get_all_trading_events(table, limit) == Take(Reverse(table), limit)

\* insert_parsed_event, lines 224-284: INSERT OR REPLACE under the UNIQUE
\* segment_hash: the old row of the hash is deleted, the new row is last.
insert_parsed_event(table, segment_hash, scraped_at, signal_timestamp) ==
    LET others == {i \in 1 .. Len(table) : table[i].segment_hash # segment_hash}
        kept == SelectSeqBy([i \in 1 .. Len(table) |-> i], others)
    IN  Append([k \in 1 .. Len(kept) |-> table[kept[k]]],
               [segment_hash |-> segment_hash, scraped_at |-> scraped_at,
                signal_timestamp |-> signal_timestamp])

(***************************************************************************)
(* Broker resolution.                                                      *)
(***************************************************************************)
\* broker.py get_broker, lines 163-167: only OandaBroker is known; any other
\* name raises ValueError.  The result is the broker object's name.
get_broker(name) ==
    IF name \in {"oanda", ""} THEN "oanda" ELSE "ValueError"

\* executor.py line 99 calls the get_broker bound in the executor module.
\* With src/broker.py as it is ("broker.py") no name yields an object named
\* "saxo", so line 100 stops every cycle that does not raise.  The body of
\* the engine runs only where that name is bound to a factory that also
\* returns brokers/saxo.py's SaxoBroker for "saxo" ("saxo_aware"): the model
\* keeps both worlds, chosen in the initial state.
resolve_broker(factory, name) ==
    IF factory = "saxo_aware" /\ name = "saxo" THEN "saxo" ELSE get_broker(name)

(***************************************************************************)
(* Signals.                                                                *)
(***************************************************************************)
\* signal_timestamp values that are not a time: a text that does not parse,
\* and an ISO text without UTC offset (parses to a naive datetime).
BadTimestamp == -2

NaiveTimestamp == -3

\* str(instrument).upper().replace("/", ""), line 200, on the spellings the
\* feed messages of the model use.
normalize_instrument(text) ==
    CASE text = "usd/jpy" -> "USDJPY"
      [] text = "eur/usd" -> "EURUSD"
      [] OTHER -> text

\* _parse_timestamp, lines 38-52: None for a missing or unparseable value.
parse_timestamp(value) ==
    IF value = None \/ value = BadTimestamp THEN None ELSE value

\* Line 212: the signal is older than the freshness threshold.
is_stale(clock, ts, freshness_seconds) ==
    freshness_seconds > 0 /\ clock - ts > freshness_seconds

\* What the guards would answer if the freshness test came right after the
\* duplicate checks.
pre_guard_stale_first(ledger, clock, cfg, row, sig) ==
    LET norm_instrument == normalize_instrument(sig.instrument)
        ts == parse_timestamp(row.signal_timestamp)
    IN  IF was_executed(ledger, row.segment_hash) THEN "duplicate"
        ELSE IF was_executed_recent(ledger, row.segment_hash, clock, RecentWindowSeconds)
             THEN "duplicate_recent"
        ELSE IF ts # None /\ is_stale(clock, ts, cfg.freshness_seconds) THEN "stale_signal"
        ELSE IF \/ sig.action = Null \/ sig.instrument = Null \/ sig.uic = None
                \/ sig.asset_type = Null \/ row.signal_timestamp = None
             THEN "missing_required_fields"
        ELSE IF sig.action \notin {"ENTRY", "CLOSE_TP", "CLOSE_SL"} THEN "unsupported_action"
        ELSE IF sig.asset_type # "FxSpot" THEN "unsupported_asset_type"
        ELSE IF sig.uic = BadUic THEN "invalid_uic"
        ELSE IF norm_instrument \notin DOMAIN ALLOWED_UICS THEN "instrument_not_allowed"
        ELSE IF ALLOWED_UICS[norm_instrument] # sig.uic THEN "uic_mismatch"
        ELSE IF ts = None THEN "invalid_timestamp"
        ELSE IF cfg.allowed_pairs # {} /\ norm_instrument \notin cfg.allowed_pairs
             THEN "pair_not_allowed"
        ELSE IF sig.action = "ENTRY"
                /\ (sig.direction \notin {"BUY", "SELL"} \/ sig.lot_ratio = None)
             THEN "missing_direction_or_lot"
        ELSE "ok"

\* The guards of lines 169-222 in order: the reason of the first guard that
\* fails, "ok" when all pass, "TypeError" when line 212 subtracts a naive
\* datetime from an aware one.  row is the parsed_events row, sig its fields.
pre_guard(ledger, clock, cfg, row, sig) ==
    LET norm_instrument == normalize_instrument(sig.instrument)
        ts == parse_timestamp(row.signal_timestamp)
    IN  IF was_executed(ledger, row.segment_hash) THEN "duplicate"
        ELSE IF was_executed_recent(ledger, row.segment_hash, clock, RecentWindowSeconds)
             THEN "duplicate_recent"
        ELSE IF \/ sig.action = Null \/ sig.instrument = Null \/ sig.uic = None
                \/ sig.asset_type = Null \/ row.signal_timestamp = None
             THEN "missing_required_fields"
        ELSE IF sig.action \notin {"ENTRY", "CLOSE_TP", "CLOSE_SL"} THEN "unsupported_action"
        ELSE IF sig.asset_type # "FxSpot" THEN "unsupported_asset_type"
        ELSE IF sig.uic = BadUic THEN "invalid_uic"
        ELSE IF norm_instrument \notin DOMAIN ALLOWED_UICS THEN "instrument_not_allowed"
        ELSE IF ALLOWED_UICS[norm_instrument] # sig.uic THEN "uic_mismatch"
        ELSE IF ts = None THEN "invalid_timestamp"
        ELSE IF cfg.freshness_seconds > 0 /\ ts = NaiveTimestamp THEN "TypeError"
        ELSE IF is_stale(clock, ts, cfg.freshness_seconds) THEN "stale_signal"
        ELSE IF cfg.allowed_pairs # {} /\ norm_instrument \notin cfg.allowed_pairs
             THEN "pair_not_allowed"
        ELSE IF sig.action = "ENTRY"
                /\ (sig.direction \notin {"BUY", "SELL"} \/ sig.lot_ratio = None)
             THEN "missing_direction_or_lot"
        ELSE "ok"

\* Lines 121-127: the batch of a cycle, newest first.
select_signals(all_signals, process_last_n) ==
    IF process_last_n > 0
    THEN Take(all_signals, process_last_n)
    ELSE IF all_signals = << >> THEN << >>
         ELSE LET latest_scrape == all_signals[1].scraped_at
                  keep == {i \in 1 .. Len(all_signals) :
                              all_signals[i].scraped_at = latest_scrape}
                  idx == SelectSeqBy([i \in 1 .. Len(all_signals) |-> i], keep)
              IN  [k \in 1 .. Len(idx) |-> all_signals[idx[k]]]

\* What a drawdown breaker with an exclusive threshold would decide.
drawdown_breached_exclusive(baseline, equity) ==
    /\ baseline # None
    /\ baseline > 0
    /\ (baseline - equity) * 100 > DrawdownLimitPct * baseline

\* Lines 147-150: baseline and baseline > 0 and (baseline - equity) / baseline
\* >= 0.05.
drawdown_breached(baseline, equity) ==
    /\ baseline # None
    /\ baseline > 0
    /\ (baseline - equity) * 100 >= DrawdownLimitPct * baseline

\* Lines 152-153: the persisted consecutive-failure breaker.
failure_breaker(ledger) ==
    LET recent == get_recent_executions(ledger, BreakerWindow)
    IN  /\ Len(recent) = BreakerWindow
        /\ \A i \in 1 .. Len(recent) : recent[i].status = "failed"

\* Line 142: the UTC date of the clock.
date_key(clock) == clock \div DaySeconds

(***************************************************************************)
(* The cycle: execute_pending_signals, lines 84-415.                       *)
(***************************************************************************)
\* No order waiting to be recorded.
NoPending == [active |-> FALSE, segment_hash |-> 0, ok |-> FALSE,
              is_close |-> FALSE, instrument |-> Null]

\* The locals of execute_pending_signals before the call.  notes is the
\* sequence of _note_skip calls (skip_reasons counts them per reason); asked
\* is the sizes passed to broker.precheck_order, in order, for the signal the
\* loop handled last, margin_required the answer of line 350 for it.
IdleLocal ==
    [signals |-> << >>, equity |-> None, day_baseline |-> None,
     broker_positions |-> << >>, api_errors |-> 0, order_rejections |-> 0,
     processed |-> 0, submitted |-> 0, failed |-> << >>, skipped |-> << >>,
     notes |-> << >>, stop |-> Null, pending |-> NoPending, asked |-> << >>,
     margin_required |-> None]

\* get_equity raised (brokers/saxo.py _handle_response, lines 47-56).
EquityRaises == -2

\* brokers/saxo.py refresh_positions, lines 97-99 with _extract_positions:
\* the open positions of the account, keyed by uic.
refresh_positions(books) ==
    [u \in {x \in DOMAIN books : books[x] # 0} |-> books[u]]

\* What a _stop that prints its reason without raising would do.
stop_cycle_continue(loc, reason) ==
    [pc |-> "signals", local |-> [loc EXCEPT !.stop = reason]]

\* _stop, lines 33-35: SystemExit leaves the cycle at once.
stop_cycle(loc, reason) == [pc |-> "stopped", local |-> [loc EXCEPT !.stop = reason]]

\* str.lower() on the spellings of SAXO_ENV the model uses.
lower(text) == IF text = "SIM" THEN "sim" ELSE text

\* Lines 94-163 for the equity answer and the outcome of refresh_positions:
\* where the cycle is afterwards, its locals, and the daily_equity table.
begin_cycle(answer, refreshed) ==
    LET broker == resolve_broker(broker_factory, settings.broker)
        all_signals == get_all_trading_events(parsed_events, EventLimit)
        signals == select_signals(all_signals, settings.process_last_n)
        snapshot == IF refreshed THEN refresh_positions(positions) ELSE << >>
        today == date_key(now)
        stored == get_daily_equity(daily_equity, today)
        table == IF stored = None THEN set_daily_equity(daily_equity, today, answer)
                 ELSE daily_equity
        baseline == IF stored = None THEN answer ELSE stored
        loc == [IdleLocal EXCEPT !.signals = signals, !.broker_positions = snapshot]
        loc2 == [loc EXCEPT !.equity = answer, !.day_baseline = baseline]
        halted(r) == stop_cycle(IdleLocal, r) @@ [daily_equity |-> daily_equity]
    IN  IF lower(environ.SAXO_ENV) # "sim" THEN halted("SAXO_ENV must be sim")
        ELSE IF environ.BOT_ENABLED # "true" THEN halted("BOT_ENABLED is not true")
        ELSE IF broker = "ValueError"
             THEN [pc |-> "raised", local |-> IdleLocal, daily_equity |-> daily_equity]
        ELSE IF broker # BrokerName THEN halted("Unsupported broker")
        ELSE IF answer = EquityRaises
             THEN [pc |-> "raised", local |-> loc, daily_equity |-> daily_equity]
        ELSE IF answer = None
             THEN stop_cycle(loc, "Equity unavailable") @@ [daily_equity |-> daily_equity]
        ELSE IF drawdown_breached(baseline, answer)
             THEN stop_cycle(loc2, "Daily drawdown limit reached") @@ [daily_equity |-> table]
        ELSE IF failure_breaker(executed_orders)
             THEN stop_cycle(loc2, "3 consecutive broker failures") @@ [daily_equity |-> table]
        ELSE [pc |-> "signals", local |-> loc2, daily_equity |-> table]

\* The equity values the broker reports in the model; None is no equity in
\* the answer, EquityRaises a failed request.
EquityAnswers == {None, EquityRaises, 0, 9400, 9500, 9600, 10000}

\* refresh_positions and get_open_position_units succeed, or may also fail.
Outcomes(reliable) == IF reliable THEN {TRUE} ELSE BOOLEAN

\* A caller enters run_execution_cycle: lines 94-163 of the cycle.
BeginCycle(c) ==
    /\ pc[c] = "idle"
    /\ cycles < MaxCycles
    /\ cycles' = cycles + 1
    /\ \E answer \in account.equities, refreshed \in Outcomes(account.reliable) :
          LET out == begin_cycle(answer, refreshed)
          IN  /\ pc' = [pc EXCEPT ![c] = out.pc]
              /\ local' = [local EXCEPT ![c] = out.local]
              /\ daily_equity' = out.daily_equity
    /\ UNCHANGED <<config_vars, now, ticks, scrapes, parsed_events, executed_orders,
                   baseline_units, positions, orders, sz>>

\* The margin answers of the broker's precheck in the model: unavailable, or
\* one of two amounts (300 is 3% of an equity of 10000).
MarginAnswers == {None, 300, 20000}

\* The precheck answers during one sizing search: one per size, and the quick
\* check at the ceiling, a call of its own that may also be unavailable.
SizingOracles(answers) ==
    { [quick |-> q, m |-> f] : q \in answers, f \in [1 .. MaxTotalUnits -> answers] }

\* Lines 228 and 300: the size from the cycle's snapshot when the uic is in
\* it, else from the broker (brokers/saxo.py get_open_position_units, lines
\* 101-103, which reads the books again).
existing_units_of(snapshot, uic, books) ==
    IF uic \in DOMAIN snapshot THEN snapshot[uic] ELSE books[uic]

\* What a rule that only sees a long position against a SELL would decide.
conflict_position_long_only(existing_units, units, direction) ==
    existing_units > 0 /\ direction = "SELL"

\* Line 301: existing_units and (existing_units > 0 > units or
\* existing_units < 0 < units); units is the order's unsigned size.
conflict_position(existing_units, units, direction) ==
    /\ existing_units # 0
    /\ \/ existing_units > 0 /\ 0 > units
       \/ existing_units < 0 /\ 0 < units

\* Lines 267-282: the baseline of an ENTRY.  skip is Null when there is one;
\* probes is the sizes the sizing search asked the precheck for.
entry_baseline(sig, equity, table, oracle) ==
    LET norm_instrument == normalize_instrument(sig.instrument)
    IN  IF sig.is_add
        THEN LET stored == get_baseline_units(table, norm_instrument, sig.direction)
             IN  [skip |-> IF stored = None THEN "missing baseline" ELSE Null,
                  baseline_units |-> stored, table |-> table, probes |-> << >>]
        ELSE LET search == find_max_units(oracle.quick, oracle.m, equity,
                                          settings.max_total_units)
                 found == search.result
                 fresh == resolve_fresh_baseline(found)
             IN  [skip |-> fresh.skip, baseline_units |-> fresh.baseline_units,
                  table |-> IF fresh.skip = Null
                            THEN set_baseline_units(table, norm_instrument,
                                                    sig.direction, found)
                            ELSE table,
                  probes |-> search.probes]

\* What a test that takes a missing answer for a margin of nothing would decide.
precheck_unavailable_never(margin_required) == FALSE

\* Line 351: margin_required is None, the precheck gave no answer.
precheck_unavailable(margin_required) == margin_required = None

\* What an engine without the margin limit would decide.
margin_over_limit_never(margin_required, equity) == FALSE

\* Line 360: margin_required > equity * 0.03.
margin_over_limit(margin_required, equity) ==
    margin_required * 100 > equity * MarginLimitPct

\* What a policy that looks at strict_mode alone would decide.
missing_prices_skip_strict_only(no_prices, strict_mode, allow_market_without_prices) ==
    no_prices /\ strict_mode

\* Lines 311-312: an ENTRY without entry_price or sl_price is skipped when
\* strict_mode is on or allow_market_without_prices is off.
missing_prices_skip(no_prices, strict_mode, allow_market_without_prices) ==
    no_prices /\ (strict_mode \/ ~allow_market_without_prices)

\* Lines 267-364 for one ENTRY that passed the guards.  The broker's part is
\* the input: oracle (sizing prechecks), live_ok (whether a position lookup
\* outside the snapshot succeeds) and final (the precheck at the order size).
\* kind is "skip" (a skipped Ledger row with reason), "stop" (_stop), "raise"
\* (an exception leaves the cycle) or "order" (place_market_order is called).
entry_outcome(loc, sig, table, books, oracle, live_ok, final) ==
    LET base == entry_baseline(sig, loc.equity, table, oracle)
        units == RoundHalfEven(base.baseline_units * sig.lot_ratio, 100)
        snapshot == loc.broker_positions
        distinct_open == {k \in DOMAIN snapshot : snapshot[k] # 0}
        existing_units == existing_units_of(snapshot, sig.uic, books)
        no_prices == sig.entry_price = None \/ sig.sl_price = None
        risk_amount == Abs(sig.entry_price - sig.sl_price) * Abs(units)
        notional == Abs(sig.entry_price) * Abs(units)
        out(kind, reason, errors) ==
            [kind |-> kind, reason |-> reason, table |-> base.table,
             api_errors |-> errors, units |-> units, asked |-> base.probes,
             margin_required |-> None]
        checked(kind, reason, errors) ==
            [out(kind, reason, errors) EXCEPT !.asked = Append(@, units),
                                              !.margin_required = final]
    IN  IF base.skip # Null
        THEN [kind |-> "skip", reason |-> base.skip, table |-> base.table,
              api_errors |-> loc.api_errors, units |-> 0, asked |-> base.probes,
              margin_required |-> None]
        ELSE IF units <= 0 THEN out("skip", "zero units", loc.api_errors)
        ELSE IF Cardinality(distinct_open) >= MaxOpenPositions /\ sig.uic \notin distinct_open
             THEN out("skip", "max open positions", loc.api_errors)
        ELSE IF sig.uic \notin DOMAIN snapshot /\ ~live_ok
             THEN out("raise", "get_open_position_units", loc.api_errors)
        ELSE IF conflict_position(existing_units, units, sig.direction)
             THEN out("skip", "conflict position", loc.api_errors)
        ELSE IF missing_prices_skip(no_prices, settings.strict_mode,
                                    settings.allow_market_without_prices)
             THEN out("skip", "missing entry/sl", loc.api_errors)
        ELSE IF ~no_prices /\ loc.equity <= 0
             THEN out("stop", "Invalid equity", loc.api_errors)
        ELSE IF ~no_prices /\ risk_amount * 100 > loc.equity * RiskLimitPct
             THEN out("skip", "risk limit", loc.api_errors)
        ELSE IF ~no_prices /\ notional * 100 > loc.equity * ExposureLimitPct
             THEN out("skip", "exposure limit", loc.api_errors)
        ELSE IF precheck_unavailable(final)
             THEN IF loc.api_errors + 1 >= ApiErrorLimit
                  THEN checked("stop", "3 consecutive Saxo API errors", loc.api_errors + 1)
                  ELSE checked("skip", "margin unavailable", loc.api_errors + 1)
        ELSE IF margin_over_limit(final, loc.equity)
             THEN checked("skip", "margin limit", 0)
        ELSE checked("order", Null, 0)

\* The signal the for loop of line 165 is at, and its parsed fields.
current(c) == Head(local[c].signals)

sig_of(row) == catalog[row.segment_hash]

guard_of(c) ==
    pre_guard(executed_orders, now,
              [freshness_seconds |-> settings.signal_freshness_seconds,
               allowed_pairs |-> settings.allowed_pairs],
              current(c), sig_of(current(c)))

\* _note_skip of lines 103-116: the reason is counted and printed.
note_skip(loc, reason, segment_hash) ==
    [loc EXCEPT !.notes = Append(@, [reason |-> reason, segment_hash |-> segment_hash])]

\* The key _note_skip counts a recorded skip under, per Ledger reason (for
\* example lines 230-232: "no_position" and "no position").
note_label(reason) ==
    CASE reason = "no position" -> "no_position"
      [] reason = "missing baseline" -> "missing_baseline"
      [] reason = "baseline unavailable" -> "baseline_unavailable"
      [] reason = "zero units" -> "zero_units"
      [] reason = "max open positions" -> "max_open_positions"
      [] reason = "conflict position" -> "conflict_position"
      [] reason = "missing entry/sl" -> "missing_entry_sl"
      [] reason = "risk limit" -> "risk_limit"
      [] reason = "exposure limit" -> "exposure_limit"
      [] reason = "margin unavailable" -> "margin_unavailable"
      [] reason = "margin limit" -> "margin_limit"

\* What a skip that is noted but not appended to skipped would leave.
skip_processed_unlisted(loc, reason, segment_hash) ==
    [note_skip(loc, note_label(reason), segment_hash) EXCEPT
        !.processed = @ + 1,
        !.signals = Tail(@)]

\* The skips after line 224: _note_skip, skipped.append and the loop goes on.
skip_processed(loc, reason, segment_hash) ==
    [note_skip(loc, note_label(reason), segment_hash) EXCEPT
        !.skipped = Append(@, [segment_hash |-> segment_hash, reason |-> reason]),
        !.processed = @ + 1,
        !.signals = Tail(@)]

\* brokers/saxo.py place_market_order, lines 136-181: a dry run answers ok
\* before any request; else the order endpoint accepts or rejects.
place_market_order(dry_run, accepted, books, uic, side, units) ==
    IF dry_run THEN [ok |-> TRUE, books |-> books]
    ELSE IF accepted
         THEN [ok |-> TRUE,
               books |-> [books EXCEPT ![uic] = @ + IF side = "BUY" THEN units ELSE -units]]
         ELSE [ok |-> FALSE, books |-> books]

\* Lines 169-222: a guard rejects the signal (only _note_skip), or line 212
\* raises TypeError on a timestamp without offset.
GuardSignal(c) ==
    /\ pc[c] = "signals"
    /\ local[c].signals # << >>
    /\ guard_of(c) # "ok"
    /\ IF guard_of(c) = "TypeError"
       THEN /\ pc' = [pc EXCEPT ![c] = "raised"]
            /\ UNCHANGED local
       ELSE /\ local' = [local EXCEPT ![c] =
                           [note_skip(@, guard_of(c), current(c).segment_hash)
                               EXCEPT !.signals = Tail(@), !.asked = << >>,
                                      !.margin_required = None]]
            /\ UNCHANGED pc
    /\ UNCHANGED <<config_vars, now, ticks, scrapes, cycles, parsed_events, store_vars,
                   positions, orders, sz>>

\* Lines 224-244 for a CLOSE_TP or CLOSE_SL that passed the guards: no
\* position is a recorded skip, else the closing order goes to the broker.
CloseSignal(c) ==
    /\ pc[c] = "signals"
    /\ local[c].signals # << >>
    /\ guard_of(c) = "ok"
    /\ sig_of(current(c)).action \in {"CLOSE_TP", "CLOSE_SL"}
    /\ \E live_ok \in Outcomes(account.reliable), accepted \in account.accepts :
          LET row == current(c)
              sig == sig_of(row)
              loc == local[c]
              existing_units == existing_units_of(loc.broker_positions, sig.uic, positions)
              close_side == IF existing_units > 0 THEN "SELL" ELSE "BUY"
              result == place_market_order(settings.dry_run, accepted, positions,
                                           sig.uic, close_side, Abs(existing_units))
          IN  IF sig.uic \notin DOMAIN loc.broker_positions /\ ~live_ok
              THEN /\ pc' = [pc EXCEPT ![c] = "raised"]
                   /\ local' = [local EXCEPT ![c].processed = @ + 1, ![c].asked = << >>,
                                   ![c].margin_required = None]
                   /\ UNCHANGED <<executed_orders, positions, orders>>
              ELSE IF existing_units = 0
              THEN /\ local' = [local EXCEPT ![c] =
                                  [skip_processed(@, "no position", row.segment_hash)
                                      EXCEPT !.asked = << >>, !.margin_required = None]]
                   /\ executed_orders' = record_execution(executed_orders, row.segment_hash,
                                                          "skipped", "no position", now)
                   /\ UNCHANGED <<pc, positions, orders>>
              ELSE /\ orders' = Append(orders, [segment_hash |-> row.segment_hash,
                                                uic |-> sig.uic, side |-> close_side,
                                                units |-> Abs(existing_units)])
                   /\ positions' = result.books
                   /\ pc' = [pc EXCEPT ![c] = "ordered"]
                   /\ local' = [local EXCEPT ![c].processed = @ + 1,
                                   ![c].asked = << >>,
                                   ![c].margin_required = None,
                                   ![c].pending = [active |-> TRUE,
                                                   segment_hash |-> row.segment_hash,
                                                   ok |-> result.ok, is_close |-> TRUE,
                                                   instrument |->
                                                       normalize_instrument(sig.instrument)]]
                   /\ UNCHANGED executed_orders
    /\ UNCHANGED <<config_vars, now, ticks, scrapes, cycles, parsed_events, baseline_units,
                   daily_equity, sz>>

\* Lines 224 and 267-374 for an ENTRY that passed the guards.
EntrySignal(c) ==
    /\ pc[c] = "signals"
    /\ local[c].signals # << >>
    /\ guard_of(c) = "ok"
    /\ sig_of(current(c)).action = "ENTRY"
    /\ \E oracle \in SizingOracles(account.margins),
          live_ok \in Outcomes(account.reliable),
          final \in account.prechecks, accepted \in account.accepts :
          LET row == current(c)
              sig == sig_of(row)
              loc == local[c]
              out == entry_outcome(loc, sig, baseline_units, positions, oracle, live_ok, final)
              result == place_market_order(settings.dry_run, accepted, positions,
                                           sig.uic, sig.direction, out.units)
          IN  /\ baseline_units' = out.table
              /\ CASE out.kind = "skip" ->
                        /\ local' = [local EXCEPT ![c] =
                                        [skip_processed(@, out.reason, row.segment_hash)
                                            EXCEPT !.api_errors = out.api_errors,
                                                   !.asked = out.asked,
                                                   !.margin_required =
                                                       out.margin_required]]
                        /\ executed_orders' = record_execution(executed_orders,
                                                  row.segment_hash, "skipped", out.reason, now)
                        /\ UNCHANGED <<pc, positions, orders>>
                   [] out.kind = "stop" ->
                        /\ pc' = [pc EXCEPT ![c] = "stopped"]
                        /\ local' = [local EXCEPT ![c].processed = @ + 1,
                                        ![c].api_errors = out.api_errors,
                                        ![c].asked = out.asked,
                                        ![c].margin_required = out.margin_required,
                                        ![c].stop = out.reason]
                        /\ UNCHANGED <<executed_orders, positions, orders>>
                   [] out.kind = "raise" ->
                        /\ pc' = [pc EXCEPT ![c] = "raised"]
                        /\ local' = [local EXCEPT ![c].processed = @ + 1,
                                        ![c].asked = out.asked,
                                        ![c].margin_required = out.margin_required]
                        /\ UNCHANGED <<executed_orders, positions, orders>>
                   [] out.kind = "order" ->
                        /\ orders' = Append(orders, [segment_hash |-> row.segment_hash,
                                                     uic |-> sig.uic, side |-> sig.direction,
                                                     units |-> out.units])
                        /\ positions' = result.books
                        /\ pc' = [pc EXCEPT ![c] = "ordered"]
                        /\ local' = [local EXCEPT ![c].processed = @ + 1,
                                        ![c].api_errors = 0,
                                        ![c].asked = out.asked,
                                        ![c].margin_required = out.margin_required,
                                        ![c].pending = [active |-> TRUE,
                                                        segment_hash |-> row.segment_hash,
                                                        ok |-> result.ok, is_close |-> FALSE,
                                                        instrument |->
                                                            normalize_instrument(sig.instrument)]]
                        /\ UNCHANGED executed_orders
    /\ UNCHANGED <<config_vars, now, ticks, scrapes, cycles, parsed_events, daily_equity, sz>>

\* What a counter that an accepted order does not reset would hold.
order_rejections_total(count, ok) == IF ok THEN count ELSE count + 1

\* Lines 256-261 and 387-392: order_rejections after an order's answer.
order_rejections_after(count, ok) == IF ok THEN 0 ELSE count + 1

\* Lines 245-264 and 376-394: the broker's answer is recorded, a filled close
\* clears the instrument's baselines, the third rejection in a row stops.
RecordOrder(c) ==
    /\ pc[c] = "ordered"
    /\ LET loc == local[c]
           pending == loc.pending
           status == IF pending.ok THEN "filled" ELSE "failed"
           error == IF pending.ok THEN Null ELSE "rejected"
           done == [loc EXCEPT !.pending = NoPending, !.signals = Tail(@)]
       IN  /\ executed_orders' = record_execution(executed_orders, pending.segment_hash,
                                                  status, error, now)
           /\ IF pending.ok
              THEN /\ local' = [local EXCEPT ![c] =
                                   [done EXCEPT !.submitted = @ + 1,
                                                !.order_rejections =
                                                    order_rejections_after(@, TRUE)]]
                   /\ baseline_units' = IF pending.is_close
                                        THEN clear_baseline_units(baseline_units,
                                                                  pending.instrument)
                                        ELSE baseline_units
                   /\ pc' = [pc EXCEPT ![c] = "signals"]
              ELSE /\ local' = [local EXCEPT ![c] =
                                   [done EXCEPT
                                       !.failed = Append(@, [segment_hash |->
                                                                 pending.segment_hash,
                                                             error |-> error]),
                                       !.order_rejections =
                                           order_rejections_after(@, FALSE),
                                       !.stop = IF order_rejections_after(
                                                       loc.order_rejections, FALSE)
                                                   >= RejectionLimit
                                                THEN "3 consecutive order rejections"
                                                ELSE @]]
                   /\ UNCHANGED baseline_units
                   /\ pc' = [pc EXCEPT ![c] =
                                IF order_rejections_after(loc.order_rejections, FALSE)
                                      >= RejectionLimit
                                THEN "stopped" ELSE "signals"]
    /\ UNCHANGED <<config_vars, now, ticks, scrapes, cycles, parsed_events, daily_equity,
                   positions, orders, sz>>

\* Lines 398-415: the loop is through, the summary is returned.
FinishCycle(c) ==
    /\ pc[c] = "signals"
    /\ local[c].signals = << >>
    /\ pc' = [pc EXCEPT ![c] = "returned"]
    /\ UNCHANGED <<config_vars, now, ticks, scrapes, cycles, parsed_events, store_vars,
                   positions, orders, local, sz>>

\* A cycle is between its first store read and its return or exception.
in_cycle(c) == pc[c] \in {"signals", "ordered"}

\* run_loop lines 435-441, run_scheduler lines 70-76, bot_run_once lines
\* 281-287: the cycle returned or raised an Exception; the loop sleeps and
\* polls again, the request handler answers.
Resume(c) ==
    /\ pc[c] \in {"returned", "raised"}
    /\ pc' = [pc EXCEPT ![c] = "idle"]
    /\ local' = [local EXCEPT ![c] = IdleLocal]
    /\ UNCHANGED <<config_vars, now, ticks, scrapes, cycles, parsed_events, store_vars,
                   positions, orders, sz>>

\* What a loop that catches SystemExit like any exception would do.
TerminateSwallowed(c) ==
    /\ pc[c] = "stopped"
    /\ pc' = [pc EXCEPT ![c] = "idle"]
    /\ local' = [local EXCEPT ![c] = IdleLocal]
    /\ UNCHANGED <<config_vars, now, ticks, scrapes, cycles, parsed_events, store_vars,
                   positions, orders, sz>>

\* SystemExit from _stop: run_loop re-raises it (lines 437-438) and
\* run_scheduler's "except Exception" (line 72) does not catch it, so the
\* loop's process or thread ends; bot_run_once's handler ends the same way
\* and the endpoint can be called again.
Terminate(c) ==
    /\ pc[c] = "stopped"
    /\ pc' = [pc EXCEPT ![c] = IF c \in Loops THEN "off" ELSE "idle"]
    /\ local' = [local EXCEPT ![c] = IF c \in Loops
                                      THEN [IdleLocal EXCEPT !.stop = local[c].stop]
                                      ELSE IdleLocal]
    /\ UNCHANGED <<config_vars, now, ticks, scrapes, cycles, parsed_events, store_vars,
                   positions, orders, sz>>

\* The operator starts the loop again: the CLI for run_loop; application
\* startup or POST /bot/start for run_scheduler, whose thread is not alive
\* (api.py lines 184-189 and 256-259).
Restart(c) ==
    /\ c \in Loops
    /\ pc[c] = "off"
    /\ pc' = [pc EXCEPT ![c] = "idle"]
    /\ local' = [local EXCEPT ![c] = IdleLocal]
    /\ UNCHANGED <<config_vars, now, ticks, scrapes, cycles, parsed_events, store_vars,
                   positions, orders, sz>>

\* Wall-clock time passes: a moment, more than the freshness threshold, a day.
ClockSteps == {1, 200, DaySeconds}

Tick ==
    /\ ticks < MaxTicks
    /\ \E step \in ClockSteps : now' = now + step
    /\ ticks' = ticks + 1
    /\ UNCHANGED <<config_vars, scrapes, cycles, parsed_events, store_vars, positions,
                   orders, pc, local, sz>>

\* process_content.py save_snapshot_and_segments, lines 158-224: every trading
\* segment on the page is inserted with the scrape's scraped_at, which
\* classify_and_parse (line 153) also makes its signal_timestamp.
RECURSIVE insert_segments(_, _, _, _, _)
insert_segments(table, first, last, scraped_at, clock) ==
    IF first > last THEN table
    ELSE insert_segments(insert_parsed_event(table, first, scraped_at, clock),
                         first + 1, last, scraped_at, clock)

\* One scrape, placed between cycles as in run_scheduler (scheduler.py lines
\* 52-71: scrape, then cycle); a cycle reads parsed_events only at its start.
\* The page shows the feed's first message or all of them.  scraped_at is
\* distinct per scrape (utcnow() with microseconds): the scrape's number.
Scrape ==
    /\ scrapes < MaxScrapes
    /\ \A c \in Callers : ~in_cycle(c)
    /\ \E last \in {1, Len(catalog)} :
          parsed_events' = insert_segments(parsed_events, 1, last, scrapes + 1, now)
    /\ scrapes' = scrapes + 1
    /\ UNCHANGED <<config_vars, now, ticks, cycles, store_vars, positions, orders, pc,
                   local, sz>>

(***************************************************************************)
(* Configurations and feeds of the model.                                  *)
(***************************************************************************)
\* runtime_config.DEFAULT_SETTINGS, lines 7-28, with the scaled ceiling.
DefaultSettings ==
    [broker |-> "saxo", dry_run |-> TRUE, strict_mode |-> TRUE,
     allow_market_without_prices |-> FALSE, max_total_units |-> MaxTotalUnits,
     signal_freshness_seconds |-> 180, process_last_n |-> 0,
     allowed_pairs |-> {"USDJPY", "EURUSD"}]

\* Market orders without prices allowed, still a dry run.
LenientSettings ==
    [DefaultSettings EXCEPT !.strict_mode = FALSE, !.allow_market_without_prices = TRUE]

\* The same with real orders.
LiveSettings == [LenientSettings EXCEPT !.dry_run = FALSE]

\* The two mixed price policies: strict with market orders allowed, and not
\* strict with market orders not allowed.
StrictAllowSettings == [DefaultSettings EXCEPT !.allow_market_without_prices = TRUE]

LaxForbidSettings == [DefaultSettings EXCEPT !.strict_mode = FALSE]

\* A row of parsed_events as classify_and_parse (process_content.py lines
\* 113-155) fills it; lot_ratio is in percent.
Signal(action, instrument, direction, lot_ratio, is_add) ==
    [action |-> action, instrument |-> instrument,
     uic |-> ALLOWED_UICS[normalize_instrument(instrument)],
     asset_type |-> "FxSpot", direction |-> direction, lot_ratio |-> lot_ratio,
     is_add |-> is_add, entry_price |-> None, sl_price |-> None]

\* The same row with entry and stop-loss prices filled in.
Priced(sig, entry_price, sl_price) ==
    [sig EXCEPT !.entry_price = entry_price, !.sl_price = sl_price]

\* A feed of entries and a close, as the parser writes them; the newest
\* message, an addition to a position, is evaluated first.
TradeFeed ==
    <<Signal("ENTRY", "EURUSD", "BUY", 100, FALSE),
      Signal("ENTRY", "USDJPY", "SELL", 50, FALSE),
      Signal("CLOSE_TP", "EURUSD", Null, None, FALSE),
      Signal("ENTRY", "EURUSD", "BUY", 50, TRUE)>>

\* A feed that opens three positions.
EntryFeed ==
    <<Signal("ENTRY", "EURUSD", "BUY", 100, FALSE),
      Signal("ENTRY", "USDJPY", "SELL", 100, FALSE),
      Signal("ENTRY", "USDJPY", "BUY", 50, FALSE)>>

\* A feed that closes a position and opens it again.
CloseFeed ==
    <<Signal("CLOSE_SL", "USDJPY", Null, None, FALSE),
      Signal("ENTRY", "USDJPY", "BUY", 100, FALSE)>>

\* One entry as the parser writes it, without prices: half the baseline, long
\* USDJPY.
ExampleFeed == <<Signal("ENTRY", "USDJPY", "BUY", 50, FALSE)>>

\* The life of a position, oldest message first: an entry, an addition to
\* it, and its close announced twice (take-profit and stop-loss messages
\* have different hashes); the loop evaluates the newest message first.
LifecycleFeed ==
    <<Signal("ENTRY", "EURUSD", "BUY", 100, FALSE),
      Signal("ENTRY", "EURUSD", "BUY", 50, TRUE),
      Signal("CLOSE_TP", "EURUSD", Null, None, FALSE),
      Signal("CLOSE_SL", "EURUSD", Null, None, FALSE)>>

\* An entry of one and a half times the baseline ("150%" in the message,
\* process_content.py lines 94-97).
OversizeFeed == <<Signal("ENTRY", "USDJPY", "BUY", 150, FALSE)>>

\* An entry against a long EURUSD position.
ReverseFeed == <<Signal("ENTRY", "EURUSD", "SELL", 100, FALSE)>>

\* Rows with prices: within the limits, over the risk limit, over the
\* exposure limit.
PricedFeed ==
    <<Priced(Signal("ENTRY", "EURUSD", "BUY", 100, FALSE), 100, 99),
      Priced(Signal("ENTRY", "USDJPY", "SELL", 100, FALSE), 10000, 9000),
      Priced(Signal("ENTRY", "EURUSD", "SELL", 100, FALSE), 1000, 1000)>>

\* Rows the guards of lines 185-222 reject.
GuardFeed ==
    <<[Signal("ENTRY", "EURUSD", "BUY", 100, FALSE) EXCEPT !.action = "HOLD"],
      Signal("ENTRY", "GBPUSD", "BUY", 100, FALSE),
      [Signal("ENTRY", "usd/jpy", "BUY", 100, FALSE) EXCEPT !.uic = ALLOWED_UICS["EURUSD"]],
      [Signal("ENTRY", "eur/usd", Null, 100, FALSE) EXCEPT !.asset_type = "FxSpot"]>>

\* The account's open positions by uic: none; a long EURUSD; a short USDJPY;
\* three positions in other instruments.
FlatBooks == [u \in Uics |-> 0]

OpenBooks == [FlatBooks EXCEPT ![ALLOWED_UICS["EURUSD"]] = 1]

ShortBooks == [FlatBooks EXCEPT ![ALLOWED_UICS["USDJPY"]] = -1]

FullBooks == [FlatBooks EXCEPT ![ALLOWED_UICS["USDJPY"]] = 1,
                               ![ALLOWED_UICS["GBPUSD"]] = 1, ![OtherUic] = 1]

SimEnviron == [SAXO_ENV |-> "sim", BOT_ENABLED |-> "true"]

\* The broker's answers in a deployment: equities to get_equity, margins to
\* the prechecks of the sizing search, prechecks to the precheck at the order
\* size, accepts to an order, reliable for the position calls.  This one
\* answers every call: a margin within or over the limits, an order accepted
\* or rejected.
SteadyAccount ==
    [equities |-> {10000}, margins |-> {300, 20000}, prechecks |-> {300, 20000},
     accepts |-> BOOLEAN, reliable |-> TRUE]

\* A broker whose equity and precheck calls may fail.
FlakyAccount ==
    [equities |-> {None, EquityRaises, 10000}, margins |-> {300}, prechecks |-> {None, 300},
     accepts |-> {TRUE}, reliable |-> TRUE]

\* A broker whose position calls may fail.
BlindAccount ==
    [equities |-> {10000}, margins |-> {None, 300}, prechecks |-> {300},
     accepts |-> {TRUE}, reliable |-> FALSE]

\* An account whose equity moves between cycles.
MovingAccount ==
    [equities |-> {0, 9400, 9500, 9600, 10000}, margins |-> {300}, prechecks |-> {300},
     accepts |-> {TRUE}, reliable |-> TRUE]

\* A broker that answers every call and accepts or rejects an order.
TradingAccount ==
    [equities |-> {10000}, margins |-> {300}, prechecks |-> {300},
     accepts |-> BOOLEAN, reliable |-> TRUE]

\* An account of equity 50000 whose prechecks answer a margin of 1200.
ExampleAccount ==
    [equities |-> {50000}, margins |-> {1200}, prechecks |-> {1200},
     accepts |-> {TRUE}, reliable |-> TRUE]

Scenario(env, cfg, factory, feed, books, broker) ==
    [environ |-> env, settings |-> cfg, broker_factory |-> factory,
     catalog |-> feed, positions |-> books, account |-> broker]

\* The deployments the model starts from.
Scenarios ==
    { Scenario(SimEnviron, LiveSettings, "saxo_aware", TradeFeed, OpenBooks, SteadyAccount),
      Scenario(SimEnviron, LenientSettings, "saxo_aware", EntryFeed, FlatBooks, FlakyAccount),
      Scenario(SimEnviron, LenientSettings, "saxo_aware", CloseFeed, ShortBooks,
               MovingAccount),
      Scenario(SimEnviron, DefaultSettings, "saxo_aware", TradeFeed, FlatBooks, SteadyAccount),
      Scenario(SimEnviron, LenientSettings, "saxo_aware", PricedFeed, FlatBooks,
               MovingAccount),
      Scenario(SimEnviron, LiveSettings, "saxo_aware", GuardFeed, OpenBooks, SteadyAccount),
      Scenario(SimEnviron, LiveSettings, "saxo_aware", ReverseFeed, OpenBooks,
               ExampleAccount),
      Scenario(SimEnviron, StrictAllowSettings, "saxo_aware", ExampleFeed, FlatBooks,
               ExampleAccount),
      Scenario(SimEnviron, LaxForbidSettings, "saxo_aware", ExampleFeed, FlatBooks,
               ExampleAccount),
      Scenario(SimEnviron, LiveSettings, "saxo_aware", LifecycleFeed, OpenBooks,
               TradingAccount),
      Scenario(SimEnviron, LiveSettings, "saxo_aware", OversizeFeed, FlatBooks,
               ExampleAccount),
      Scenario(SimEnviron, DefaultSettings, "saxo_aware", ExampleFeed, FlatBooks,
               ExampleAccount),
      Scenario(SimEnviron, LiveSettings, "saxo_aware", SubSeq(TradeFeed, 1, 1), FullBooks,
               SteadyAccount),
      Scenario(SimEnviron, LiveSettings, "saxo_aware", SubSeq(TradeFeed, 1, 1), FullBooks,
               BlindAccount),
      Scenario([SimEnviron EXCEPT !.SAXO_ENV = "SIM"], LiveSettings, "saxo_aware",
               CloseFeed, ShortBooks, BlindAccount),
      Scenario([SimEnviron EXCEPT !.SAXO_ENV = "live"], LiveSettings, "saxo_aware",
               TradeFeed, OpenBooks, SteadyAccount),
      Scenario([SimEnviron EXCEPT !.BOT_ENABLED = "True"], LiveSettings, "saxo_aware",
               TradeFeed, OpenBooks, SteadyAccount),
      Scenario(SimEnviron, LiveSettings, "broker.py", TradeFeed, OpenBooks, SteadyAccount),
      Scenario(SimEnviron, [LiveSettings EXCEPT !.broker = "oanda"], "saxo_aware",
               TradeFeed, OpenBooks, SteadyAccount) }

(***************************************************************************)
(* The sizing function on its own.                                         *)
(***************************************************************************)
\* sz outside the sizing specification.
NoSizing == [phase |-> "unused"]

\* The margin answers of the sizing specification; None: the precheck is
\* unavailable.
SizingAnswers == {None} \cup 0 .. MaxMargin

\* One call of _find_max_units within the bounds: a ceiling, an equity, the
\* broker's margin answer per size from 0 on, and the answer of the quick
\* check at the ceiling, which asks the same precheck in a call of its own.
SizingInput(n, e, f, q) ==
    [phase |-> "input", max_units |-> n, equity |-> e, m |-> f, quick |-> q]

\* Lines 275-282 around _find_max_units: the search and the caller's use of
\* its result.
RunSizing ==
    /\ sz.phase = "input"
    /\ LET found == find_max_units(sz.quick, sz.m, sz.equity, sz.max_units)
           fresh == resolve_fresh_baseline(found.result)
       IN  sz' = [sz EXCEPT !.phase = "done"] @@
                 [result |-> found.result, probes |-> found.probes,
                  skip |-> fresh.skip, baseline_units |-> fresh.baseline_units]
    /\ UNCHANGED <<config_vars, now, ticks, scrapes, cycles, parsed_events, store_vars,
                   positions, orders, pc, local>>

(***************************************************************************)
(* Specifications.                                                         *)
(***************************************************************************)
\* The days the clock can reach.
Days == 0 .. MaxTicks

\* A deployment with empty stores (storage.py init_db) and no cycle running;
\* the API's startup hook (api.py lines 190-202) has set "running" and started
\* the scheduler thread.
InitEngine(scenario) ==
    /\ environ = scenario.environ
    /\ settings = scenario.settings
    /\ broker_factory = scenario.broker_factory
    /\ catalog = scenario.catalog
    /\ positions = scenario.positions
    /\ account = scenario.account
    /\ running = TRUE
    /\ stop_event = FALSE
    /\ now = 0
    /\ ticks = 0
    /\ scrapes = 0
    /\ cycles = 0
    /\ parsed_events = << >>
    /\ executed_orders = << >>
    /\ baseline_units = [k \in Instruments \X Directions |-> None]
    /\ daily_equity = [d \in Days |-> None]
    /\ orders = << >>
    /\ pc = [c \in Callers |-> "idle"]
    /\ local = [c \in Callers |-> IdleLocal]

Init ==
    /\ \E scenario \in Scenarios : InitEngine(scenario)
    /\ sz = NoSizing

\* Cycles one at a time: a caller enters only while every other caller is
\* between cycles.
BeginAlone(c) ==
    /\ \A d \in Callers \ {c} : pc[d] \in {"idle", "off"}
    /\ BeginCycle(c)

Step(c) ==
    \/ GuardSignal(c)
    \/ CloseSignal(c)
    \/ EntrySignal(c)
    \/ RecordOrder(c)
    \/ FinishCycle(c)
    \/ Resume(c)
    \/ Terminate(c)
    \/ Restart(c)

Next ==
    \/ \E c \in Callers : BeginAlone(c)
    \/ \E c \in Callers : Step(c)
    \/ Tick
    \/ Scrape

Spec == Init /\ [][Next]_vars

\* Sizing alone: the inputs are drawn in the initial state.
InitSizing ==
    /\ InitEngine(Scenario(SimEnviron, DefaultSettings, "saxo_aware", TradeFeed, FlatBooks,
                            SteadyAccount))
    /\ \E n \in -1 .. MaxCeiling, e \in 0 .. MaxMargin :
          \E f \in [0 .. n -> SizingAnswers] :
             \E q \in IF n >= 0 THEN {None, f[n]} ELSE {None} : sz = SizingInput(n, e, f, q)

NextSizing == RunSizing

SpecSizing == InitSizing /\ [][NextSizing]_vars

(***************************************************************************)
(* Sizing: claims C9 and C10, under SpecSizing.                            *)
(***************************************************************************)
\* The hypotheses of both claims: the margin is non-decreasing in the size
\* and every precheck answers.
margin_monotone(input) ==
    \A u \in DOMAIN input.m : \A v \in DOMAIN input.m : u <= v => input.m[u] <= input.m[v]

margin_available(input) ==
    /\ \A u \in DOMAIN input.m : input.m[u] # None
    /\ input.max_units >= 1 => input.quick = input.m[input.max_units]

\* The sizes of [1, ceiling] whose margin the equity covers.
affordable(input) == {u \in 1 .. input.max_units : input.m[u] # None /\ input.m[u] <= input.equity}

largest(sizes) == CHOOSE u \in sizes : \A v \in sizes : v <= u

sizing_case(input) ==
    /\ input.phase = "done"
    /\ input.max_units >= 1
    /\ margin_monotone(input)
    /\ margin_available(input)

\* C9: for a ceiling >= 1 and a non-decreasing, always available margin, the
\* search returns the largest size of [1, ceiling] whose margin is within the
\* equity when there is one, and the ceiling whenever the ceiling is
\* affordable.
C9_SizingOptimal ==
    sizing_case(sz) /\ affordable(sz) # {} => sz.result = largest(affordable(sz))

EnvStops == {"SAXO_ENV must be sim", "BOT_ENABLED is not true"}

CycleStops ==
    EnvStops \cup {"Equity unavailable", "Daily drawdown limit reached",
                   "3 consecutive broker failures"}

C5_DrawdownGate ==
    \A c \in Callers :
        local[c].equity # None =>
            LET B == local[c].day_baseline
                E == local[c].equity
                halted == local[c].stop = "Daily drawdown limit reached"
            IN  /\ halted <=> (B > 0 /\ (B - E) * 100 >= 5 * B)
                /\ halted => pc[c] = "stopped" /\ local[c].processed = 0
                /\ B = 10000 /\ E \in {9400, 9500} => halted
                /\ B = 10000 /\ E = 9600 => ~halted
                /\ E >= B => ~halted
                /\ in_cycle(c) /\ ticks = 0 => B = daily_equity[date_key(now)]

\* C5 witness: a cycle stopped at exactly 5% drawdown.
C5_ThresholdWitness ==
    \E c \in Callers :
        /\ pc[c] = "stopped"
        /\ local[c].day_baseline = 10000
        /\ local[c].equity = 9500
        /\ local[c].stop = "Daily drawdown limit reached"

\* The Ledger has a row for the hash.
has_row(ledger, segment_hash) ==
    \E i \in 1 .. Len(ledger) : ledger[i].segment_hash = segment_hash

\* The caller took a step of its cycle.
stepped(c) == pc'[c] # pc[c] \/ local'[c] # local[c]

segment_hashes == DOMAIN catalog

last_three_failed(ledger) ==
    /\ Len(ledger) >= 3
    /\ \A i \in Len(ledger) - 2 .. Len(ledger) : ledger[i].status = "failed"

\* C6: a cycle that reaches the failure breaker (equity at hand, no drawdown
\* stop) is stopped by it exactly when the three most recently written
\* Ledger rows are all failed.
C6_BreakerOnLastThreeWritten ==
    [][\A c \in Callers :
          /\ pc[c] = "idle" /\ pc'[c] \in {"signals", "stopped"}
          /\ local'[c].equity # None
          /\ local'[c].stop # "Daily drawdown limit reached"
          => (local'[c].stop = "3 consecutive broker failures"
                <=> last_three_failed(executed_orders))]_vars

\* Every reason _stop is called with.
AllStops ==
    CycleStops \cup {"Unsupported broker", "Invalid equity",
                     "3 consecutive Saxo API errors", "3 consecutive order rejections"}

\* C7: a fatal condition ends the cycle at once (a caller with a stop reason
\* is out of the signal loop and evaluates nothing more), run_loop and
\* run_scheduler end with it and begin no further cycle unless started anew,
\* while after an exception inside a cycle the loop goes back to polling.
C7_FatalStopsEndTheLoop ==
    /\ [](\A c \in Callers :
            local[c].stop # Null => /\ local[c].stop \in AllStops
                                    /\ pc[c] \in {"stopped", "off"})
    /\ [][\A c \in Callers :
            pc[c] = "stopped" /\ stepped(c) =>
               /\ pc'[c] = IF c \in Loops THEN "off" ELSE "idle"
               /\ orders' = orders /\ executed_orders' = executed_orders
               /\ baseline_units' = baseline_units]_vars
    /\ [][\A c \in Loops :
            /\ pc[c] = "off" => pc'[c] \in {"off", "idle"} /\ local'[c].processed = 0
            /\ pc[c] = "raised" /\ stepped(c) => pc'[c] = "idle"]_vars

\* C7 witness: run_scheduler ended on the third order rejection of a cycle
\* while signals were left, and run_loop is back at polling.
C7_LoopEndedWitness ==
    /\ pc["run_scheduler"] = "off"
    /\ local["run_scheduler"].stop = "3 consecutive order rejections"
    /\ pc["run_loop"] = "idle"
    /\ cycles = MaxCycles

\* C8 as stated: every step that skips a signal or stops the cycle writes a
\* Ledger row.
C8_EverySkipAndHaltRecorded ==
    [][\A c \in Callers :
          \/ Len(local'[c].notes) > Len(local[c].notes)
          \/ local[c].stop = Null /\ local'[c].stop # Null
          => Len(executed_orders') > Len(executed_orders)]_vars

\* C8 amended: a skip after the guards (a processed signal) writes, in the
\* same step, a skipped Ledger row with the signal's hash and the reason; a
\* skip by a guard of lines 169-222 only counts its reason and leaves the
\* Ledger alone; no Ledger row carries the reason of a fatal stop, and a stop
\* writes at most the failed row of the rejected order.
C8_ProcessedSkipsRecorded ==
    /\ [](\A i \in 1 .. Len(executed_orders) :
            /\ executed_orders[i].error_message \notin AllStops
            /\ executed_orders[i].status = "skipped"
                  => executed_orders[i].error_message # Null)
    /\ [][\A c \in Callers :
            LET grown == Len(local'[c].skipped) = Len(local[c].skipped) + 1
                noted == Len(local'[c].notes) = Len(local[c].notes) + 1
                last == local'[c].skipped[Len(local'[c].skipped)]
                row == executed_orders'[Len(executed_orders')]
            IN  /\ grown => /\ noted
                            /\ executed_orders' # << >>
                            /\ row.segment_hash = last.segment_hash
                            /\ row.status = "skipped"
                            /\ row.error_message = last.reason
                            /\ row.created_at = now
                /\ noted /\ ~grown => executed_orders' = executed_orders
                /\ local[c].stop = Null /\ local'[c].stop # Null
                      => \/ executed_orders' = executed_orders
                         \/ /\ local'[c].stop = "3 consecutive order rejections"
                            /\ executed_orders'[Len(executed_orders')].status = "failed"]_vars

\* C8 witness: one cycle has recorded a skip in the Ledger and skipped
\* another signal at a guard without a row.
C8_BothSkipsWitness ==
    \E c \in Callers :
        /\ local[c].skipped # << >>
        /\ Len(local[c].notes) > Len(local[c].skipped)
        /\ \E i \in 1 .. Len(executed_orders) :
              /\ executed_orders[i].status = "skipped"
              /\ executed_orders[i].segment_hash = local[c].skipped[1].segment_hash

(***************************************************************************)
(* Overlapping cycles: claims under SpecOverlap.                           *)
(***************************************************************************)
\* A broker that always answers, sometimes without an equity, and accepts or
\* rejects an order.
PlainAccount ==
    [equities |-> {None, 10000}, margins |-> {300}, prechecks |-> {300},
     accepts |-> BOOLEAN, reliable |-> TRUE]

\* One deployment: real orders, a short USDJPY position, a feed that closes
\* it and opens a long one.
InitOverlap ==
    /\ InitEngine(Scenario(SimEnviron, LiveSettings, "saxo_aware", CloseFeed, ShortBooks,
                           PlainAccount))
    /\ sz = NoSizing

\* The callers as the code runs them: run_execution_cycle takes no lock, so
\* the scheduler thread (scheduler.py line 71), a request to POST
\* /bot/run-once (api.py line 281) and the CLI loop enter whenever they are
\* due, whatever the others are doing.
NextOverlap ==
    \/ \E c \in Callers : BeginCycle(c)
    \/ \E c \in Callers : Step(c)
    \/ Tick
    \/ Scrape

SpecOverlap == InitOverlap /\ [][NextOverlap]_vars

\* C2: however the steps of two cycles interleave, no segment_hash is
\* submitted to the broker twice.
C2_NoDoubleOrderWhenOverlapping ==
    \A i \in 1 .. Len(orders) : \A j \in 1 .. Len(orders) :
        i # j => orders[i].segment_hash # orders[j].segment_hash

\* C3: the scheduler thread and a POST /bot/run-once request are never both
\* inside a cycle.
C3_OneCycleAtATime ==
    ~(in_cycle("run_scheduler") /\ in_cycle("bot_run_once"))

(***************************************************************************)
(* The ENTRY and CLOSE branches: claims under Spec.                        *)
(***************************************************************************)
\* The caller is at a signal that passed the guards of lines 169-222.
at_signal(c) ==
    /\ pc[c] = "signals"
    /\ local[c].signals # << >>
    /\ guard_of(c) = "ok"

\* The reason of the skip the caller's step has just recorded, Null if none.
skip_reason(c) ==
    IF Len(local'[c].skipped) = Len(local[c].skipped) + 1
    THEN local'[c].skipped[Len(local'[c].skipped)].reason
    ELSE Null

\* The recorded skips that come before the conflict check (lines 267-297).
BeforeConflict ==
    {"missing baseline", "baseline unavailable", "zero units", "max open positions"}

skipped_row(c, reason) ==
    [segment_hash |-> current(c).segment_hash, status |-> "skipped",
     error_message |-> reason, created_at |-> now]

\* C12: an is_add ENTRY past the guards whose (instrument, direction) has no
\* baseline row is skipped with "missing baseline" in the Ledger; the step
\* asks no precheck (neither sizing search nor margin check), places no
\* order, and leaves the baselines as they are; the loop goes on.
C12_AddWithoutBaselineSkipped ==
    [][\A c \in Callers :
          /\ at_signal(c) /\ stepped(c)
          /\ sig_of(current(c)).action = "ENTRY"
          /\ sig_of(current(c)).is_add
          /\ baseline_units[<<normalize_instrument(sig_of(current(c)).instrument),
                              sig_of(current(c)).direction>>] = None
          => /\ skip_reason(c) = "missing baseline"
             /\ executed_orders'[Len(executed_orders')] = skipped_row(c, "missing baseline")
             /\ local'[c].asked = << >>
             /\ orders' = orders /\ positions' = positions
             /\ baseline_units' = baseline_units
             /\ pc'[c] = "signals"
             /\ local'[c].signals = Tail(local[c].signals)]_vars

\* C12 witness: an addition to a position the account holds, with real
\* orders and a broker that answers, has the Ledger row "missing baseline".
C12_MissingBaselineWitness ==
    \E i \in 1 .. Len(executed_orders) :
        LET sig == catalog[executed_orders[i].segment_hash]
        IN  /\ executed_orders[i].status = "skipped"
            /\ executed_orders[i].error_message = "missing baseline"
            /\ sig.is_add /\ sig.action = "ENTRY"
            /\ positions[sig.uic] > 0
            /\ ~settings.dry_run

\* C13 as stated, with sizes in units of 10000: in the deployment with the
\* default settings whose feed is the one USDJPY BUY entry at lot ratio 0.5
\* without prices, equity 50000 and prechecks answering 1200, once a cycle
\* has handled the signal and stored the baseline 20000 found at the ceiling,
\* one BUY order of 10000 units has gone out and the Ledger row is filled.
C13_DefaultRunSubmits ==
    /\ settings = DefaultSettings /\ catalog = ExampleFeed
    /\ has_row(executed_orders, 1)
    /\ baseline_units[<<"USDJPY", "BUY">>] = MaxTotalUnits
    => /\ orders = <<[segment_hash |-> 1, uic |-> 22, side |-> "BUY",
                       units |-> MaxTotalUnits \div 2]>>
       /\ executed_orders[1].status = "filled"

\* The guards in the order the claim gives them.
GuardOrder ==
    <<"duplicate", "duplicate_recent", "missing_required_fields", "unsupported_action",
      "unsupported_asset_type", "invalid_uic", "instrument_not_allowed", "uic_mismatch",
      "invalid_timestamp", "stale_signal", "pair_not_allowed", "missing_direction_or_lot">>

\* Each guard on its own: whether the caller's current signal fails it.
guard_fails(c, reason) ==
    LET row == current(c)
        sig == sig_of(row)
        norm == normalize_instrument(sig.instrument)
        ts == row.signal_timestamp
    IN  CASE reason = "duplicate" -> has_row(executed_orders, row.segment_hash)
          [] reason = "duplicate_recent" ->
                \E i \in 1 .. Len(executed_orders) :
                    /\ executed_orders[i].segment_hash = row.segment_hash
                    /\ now - executed_orders[i].created_at <= RecentWindowSeconds
          [] reason = "missing_required_fields" ->
                Null \in {sig.action, sig.instrument, sig.asset_type}
                   \/ None \in {sig.uic, ts}
          [] reason = "unsupported_action" -> sig.action \notin {"ENTRY", "CLOSE_TP", "CLOSE_SL"}
          [] reason = "unsupported_asset_type" -> sig.asset_type # "FxSpot"
          [] reason = "invalid_uic" -> sig.uic = BadUic
          [] reason = "instrument_not_allowed" -> norm \notin Instruments
          [] reason = "uic_mismatch" -> norm \in Instruments /\ ALLOWED_UICS[norm] # sig.uic
          [] reason = "invalid_timestamp" -> ts \in {None, BadTimestamp}
          [] reason = "stale_signal" ->
                /\ ts >= 0
                /\ settings.signal_freshness_seconds > 0
                /\ now - ts > settings.signal_freshness_seconds
          [] reason = "pair_not_allowed" ->
                settings.allowed_pairs # {} /\ norm \notin settings.allowed_pairs
          [] reason = "missing_direction_or_lot" ->
                sig.action = "ENTRY" /\ (sig.direction \notin Directions \/ sig.lot_ratio = None)

\* The positions in GuardOrder of the guards the current signal fails.
failing(c) == {k \in DOMAIN GuardOrder : guard_fails(c, GuardOrder[k])}

\* C14: a step on a signal that fails some guard notes the reason of the
\* first failing guard in the claimed order and nothing else: no Ledger,
\* baseline or daily-equity write, no precheck, no order, the signal is not
\* counted as processed, and the loop is at the next signal of the batch; a
\* step on a signal that fails no guard counts it as processed.
C14_FirstFailingGuardSkips ==
    [][\A c \in Callers :
          pc[c] = "signals" /\ local[c].signals # << >> /\ stepped(c)
          => IF failing(c) # {}
             THEN /\ local'[c].notes =
                        Append(local[c].notes,
                               [reason |-> GuardOrder[CHOOSE k \in failing(c) :
                                                         \A j \in failing(c) : k <= j],
                                segment_hash |-> current(c).segment_hash])
                  /\ local'[c].signals = Tail(local[c].signals)
                  /\ pc'[c] = "signals"
                  /\ local'[c].processed = local[c].processed
                  /\ local'[c].skipped = local[c].skipped
                  /\ local'[c].asked = << >>
                  /\ orders' = orders /\ positions' = positions
                  /\ executed_orders' = executed_orders
                  /\ baseline_units' = baseline_units /\ daily_equity' = daily_equity
             ELSE local'[c].processed = local[c].processed + 1]_vars

\* C14 witness: in one cycle a signal was skipped as stale and a later one of
\* the same scrape, as old as the first, was skipped for its action, the
\* earlier guard.
C14_EarlierGuardWitness ==
    \E c \in Callers : \E k \in 1 .. Len(local[c].notes) : \E j \in 1 .. Len(local[c].notes) :
        /\ k < j
        /\ local[c].notes[k].reason = "stale_signal"
        /\ local[c].notes[j].reason = "unsupported_action"
        /\ \E a \in 1 .. Len(parsed_events) : \E b \in 1 .. Len(parsed_events) :
              /\ parsed_events[a].segment_hash = local[c].notes[k].segment_hash
              /\ parsed_events[b].segment_hash = local[c].notes[j].segment_hash
              /\ parsed_events[a].signal_timestamp = parsed_events[b].signal_timestamp

\* The caller's step has sent an order for the ENTRY it was at.
entry_ordered(c) ==
    /\ at_signal(c)
    /\ sig_of(current(c)).action = "ENTRY"
    /\ pc'[c] = "ordered"

\* The order the step has sent.
sent == orders'[Len(orders')]

\* C15: an ENTRY order goes out only with a margin pre-check at exactly its
\* size that answered at most 3% of the cycle's equity and, when the signal
\* has both prices, with |entry - sl| x units <= 1% and |entry| x units <=
\* 10% of equity, units being round(baseline x lot ratio); and a skip for
\* one of the three limits happens only when that limit is exceeded.
C15_OrdersWithinRiskLimits ==
    [][\A c \in Callers :
          LET sig == sig_of(current(c))
              equity == local[c].equity
              priced == sig.entry_price # None /\ sig.sl_price # None
              risk(units) == Abs(sig.entry_price - sig.sl_price) * units
              notional(units) == Abs(sig.entry_price) * units
              asked == local'[c].asked
              sized == RoundHalfEven(
                           baseline_units'[<<normalize_instrument(sig.instrument),
                                             sig.direction>>] * sig.lot_ratio, 100)
          IN  /\ entry_ordered(c) =>
                    /\ Len(orders') = Len(orders) + 1
                    /\ sent.segment_hash = current(c).segment_hash
                    /\ sent.units > 0 /\ sent.units = sized
                    /\ asked # << >> /\ asked[Len(asked)] = sent.units
                    /\ local'[c].margin_required # None
                    /\ local'[c].margin_required * 100 <= 3 * equity
                    /\ priced => /\ risk(sent.units) * 100 <= equity
                                 /\ notional(sent.units) * 100 <= 10 * equity
              /\ at_signal(c) /\ stepped(c) /\ sig.action = "ENTRY" =>
                    /\ skip_reason(c) = "margin limit" =>
                          local'[c].margin_required * 100 > 3 * equity
                    /\ skip_reason(c) = "risk limit" =>
                          priced /\ risk(sized) * 100 > equity
                    /\ skip_reason(c) = "exposure limit" =>
                          /\ priced /\ risk(sized) * 100 <= equity
                          /\ notional(sized) * 100 > 10 * equity]_vars

\* C15 witness: an ENTRY with both prices was ordered at a margin of exactly
\* 3% of equity after the same cycle had skipped one entry for the risk limit
\* and one for the exposure limit.
C15_PricedOrderWitness ==
    \E c \in Callers :
        /\ pc[c] = "ordered"
        /\ ~local[c].pending.is_close
        /\ catalog[local[c].pending.segment_hash].entry_price # None
        /\ catalog[local[c].pending.segment_hash].sl_price # None
        /\ local[c].margin_required * 100 = 3 * local[c].equity
        /\ \E i \in 1 .. Len(local[c].skipped) : local[c].skipped[i].reason = "risk limit"
        /\ \E i \in 1 .. Len(local[c].skipped) : local[c].skipped[i].reason = "exposure limit"

\* C16: an ENTRY order goes out only after a pre-check at its size that
\* answered, and that step sets the error count to zero, as does a skip for
\* the margin limit; a skip "margin unavailable" is recorded in the Ledger,
\* sends nothing and raises the count by one; the stop "3 consecutive Saxo
\* API errors" comes exactly on the third unanswered pre-check in a row and
\* sends nothing; every other step of the loop leaves the count alone, and a
\* cycle starts with a count of zero.
C16_UnavailablePrecheckNeverPasses ==
    /\ [](\A c \in Callers : pc[c] \in {"idle", "off"} => local[c].api_errors = 0)
    /\ [](\A c \in Callers : in_cycle(c) => local[c].api_errors < ApiErrorLimit)
    /\ [][\A c \in Callers :
            at_signal(c) /\ stepped(c) =>
               LET before == local[c].api_errors
                   after == local'[c].api_errors
                   stopped == local'[c].stop = "3 consecutive Saxo API errors"
               IN  /\ entry_ordered(c) =>
                         /\ local'[c].margin_required # None
                         /\ after = 0
                   /\ skip_reason(c) = "margin limit" => after = 0
                   /\ skip_reason(c) = "margin unavailable" =>
                         /\ after = before + 1
                         /\ local'[c].margin_required = None
                         /\ local'[c].asked # << >>
                         /\ orders' = orders /\ positions' = positions
                         /\ executed_orders'[Len(executed_orders')] =
                               skipped_row(c, "margin unavailable")
                         /\ pc'[c] = "signals"
                   /\ stopped <=> pc'[c] = "stopped" /\ after = ApiErrorLimit
                   /\ stopped => /\ before = ApiErrorLimit - 1
                                  /\ local'[c].margin_required = None
                                  /\ orders' = orders /\ positions' = positions
                   /\ \/ entry_ordered(c) \/ stopped
                      \/ skip_reason(c) \in {"margin limit", "margin unavailable"}
                      \/ after = before]_vars

\* C16 witness: a cycle was stopped by the third unanswered pre-check after
\* two recorded skips "margin unavailable".
C16_ThirdUnavailableWitness ==
    \E c \in Callers :
        /\ pc[c] = "stopped"
        /\ local[c].stop = "3 consecutive Saxo API errors"
        /\ Len(local[c].skipped) = 2
        /\ \A i \in 1 .. 2 : local[c].skipped[i].reason = "margin unavailable"
        /\ \E i \in 1 .. Len(executed_orders) :
              executed_orders[i].error_message = "margin unavailable"

\* The instruments in which the broker holds a position.
open_at_broker == {u \in DOMAIN positions : positions[u] # 0}

\* The recorded skips that come before the position limit (lines 267-289).
BeforeLimit == {"missing baseline", "baseline unavailable", "zero units"}

\* C17 as stated: while the broker holds positions in three or more
\* instruments, an ENTRY for an instrument without a position that gets as
\* far as the limit is skipped with "max open positions" and sends no order;
\* and an ENTRY skipped for the limit is one for an instrument without a
\* position.
C17_PositionLimit ==
    [][\A c \in Callers :
          at_signal(c) /\ stepped(c) /\ sig_of(current(c)).action = "ENTRY" =>
             /\ Cardinality(open_at_broker) >= MaxOpenPositions
                /\ sig_of(current(c)).uic \notin open_at_broker
                => /\ orders' = orders
                   /\ pc'[c] = "signals" =>
                         skip_reason(c) \in BeforeLimit \cup {"max open positions"}
             /\ skip_reason(c) = "max open positions"
                => sig_of(current(c)).uic \notin open_at_broker]_vars

\* The Ledger row written last.
last_row(ledger) == ledger[Len(ledger)]

records(c) ==
    \/ pc[c] = "ordered" /\ stepped(c)
    \/ pc[c] = "signals" /\ local[c].signals # << >> /\ skip_reason(c) # Null

\* The row that call passes: status, error message and the clock.
recorded_by(c) ==
    IF pc[c] = "ordered"
    THEN [segment_hash |-> local[c].pending.segment_hash,
          status |-> IF local[c].pending.ok THEN "filled" ELSE "failed",
          error_message |-> IF local[c].pending.ok THEN Null ELSE "rejected",
          created_at |-> now]
    ELSE skipped_row(c, skip_reason(c))

\* C19: the Ledger never holds two rows of one segment_hash (the broker of
\* every row is saxo); a step that calls record_execution leaves exactly the
\* rows of the other hashes, unchanged and in their order, followed by the
\* row of the call: its status, its error message and the clock of the call;
\* a step that does not call it leaves the Ledger as it is.
C19_LedgerLastWriteWins ==
    /\ [](\A i \in 1 .. Len(executed_orders) : \A j \in 1 .. Len(executed_orders) :
            executed_orders[i].segment_hash = executed_orders[j].segment_hash => i = j)
    /\ [][\A c \in Callers :
            records(c) =>
               executed_orders' =
                  Append(SelectSeq(executed_orders,
                                   LAMBDA r : r.segment_hash # recorded_by(c).segment_hash),
                         recorded_by(c))]_vars
    /\ [][(\A c \in Callers : ~records(c))
            => executed_orders' = executed_orders]_vars

\* C19 witness: two overlapping cycles sent the same close; one recorded it
\* as filled, then the other recorded its rejection, and the Ledger's one row
\* for the hash is the failed one.
C19_ReplacedRowWitness ==
    \E c \in Callers : \E d \in Callers \ {c} :
        /\ Len(orders) = 2
        /\ orders[1].segment_hash = orders[2].segment_hash
        /\ local[c].submitted = 1 /\ ~local[c].pending.active
        /\ Len(local[d].failed) = 1 /\ ~local[d].pending.active
        /\ local[d].failed[1].segment_hash = orders[1].segment_hash
        /\ \E i \in 1 .. Len(executed_orders) :
              /\ executed_orders[i].segment_hash = orders[1].segment_hash
              /\ executed_orders[i].status = "failed"

\* The caller's step is the start of a cycle that got an equity value.
begins_with_equity(c) ==
    /\ pc[c] = "idle" /\ pc'[c] \in {"signals", "stopped"}
    /\ local'[c].equity # None

unrecorded ==
    {parsed_events[i].segment_hash : i \in 1 .. Len(parsed_events)} \
    {executed_orders[i].segment_hash : i \in 1 .. Len(executed_orders)}

\* The hashes of the batch the caller's cycle will evaluate.
batch_of(loc) == {loc.signals[k].segment_hash : k \in 1 .. Len(loc.signals)}

\* C21: a cycle that gets past the cycle-level guards (lines 94-163) has in
\* its batch every trading signal that has no Ledger row, so each of them is
\* evaluated by the guards of the loop, whether it was left over by a halted
\* cycle or comes from an earlier scrape than the newest signals.
C21_EveryPendingSignalEvaluated ==
    [][\A c \in Callers :
          (pc[c] = "idle" /\ pc'[c] = "signals")
          => unrecorded \subseteq batch_of(local'[c])]_vars

\* The position is on the other side of a signal of this direction.
opposite_sign(existing_units, direction) ==
    \/ existing_units > 0 /\ direction = "SELL"
    \/ existing_units < 0 /\ direction = "BUY"

\* C22: an ENTRY that reaches the conflict check of lines 299-306 is skipped
\* with "conflict position" exactly when the instrument's position, as line
\* 300 reads it, has the opposite sign to the signal's direction; an entry in
\* the direction of the position or on a flat instrument is not.
C22_ConflictExact ==
    [][\A c \in Callers :
          LET sig == sig_of(current(c))
              existing_units == existing_units_of(local[c].broker_positions, sig.uic,
                                                  positions)
          IN  (/\ at_signal(c)
               /\ sig.action = "ENTRY"
               /\ stepped(c)
               /\ skip_reason(c) \notin BeforeConflict
               /\ pc'[c] # "raised")
              => (skip_reason(c) = "conflict position"
                  <=> opposite_sign(existing_units, sig.direction))]_vars

\* The caller's step sent a closing order to place_market_order.
close_ordered(c) ==
    /\ at_signal(c)
    /\ sig_of(current(c)).action \in {"CLOSE_TP", "CLOSE_SL"}
    /\ Len(orders') = Len(orders) + 1

\* C23: a CLOSE leads to an order only while the broker holds a non-zero
\* position in the instrument, and the order's size is that position's
\* absolute size at the time of the order, also for the second CLOSE of an
\* instrument within one cycle.
C23_CloseOnlyWhatIsHeld ==
    [][\A c \in Callers :
          close_ordered(c)
          => LET held == positions[sig_of(current(c)).uic]
             IN  /\ held # 0
                 /\ sent.units = Abs(held)]_vars

\* C24: the number of distinct instruments with a non-zero position at the
\* broker never exceeds 3: starting from at most 3, no sequence of the
\* engine's orders takes it beyond.
C24_AtMostThreeInstruments == Cardinality(open_at_broker) <= MaxOpenPositions

(***************************************************************************)
(* The breaker across cycles: the engine started again on its stores.      *)
(***************************************************************************)
\* The stores are SQLite files and outlive the process.  An earlier run
\* scraped the first message of TradeFeed, sized it (line 282 stored the
\* baseline) and had its order rejected: one failed Ledger row.  The process
\* is new: no cycle has run in it and no caller is in a cycle.
InitRerun ==
    /\ environ = SimEnviron
    /\ settings = LiveSettings
    /\ broker_factory = "saxo_aware"
    /\ catalog = TradeFeed
    /\ positions = OpenBooks
    /\ account = TradingAccount
    /\ running = TRUE
    /\ stop_event = FALSE
    /\ now = 0
    /\ ticks = 0
    /\ scrapes = 1
    /\ cycles = 0
    /\ parsed_events = insert_segments(<< >>, 1, 1, 1, 0)
    /\ executed_orders = record_execution(<< >>, 1, "failed", "rejected", 0)
    /\ baseline_units = set_baseline_units([k \in Instruments \X Directions |-> None],
                                           "EURUSD", "BUY", MaxTotalUnits)
    /\ daily_equity = set_daily_equity([d \in Days |-> None], 0, 10000)
    /\ orders = <<[segment_hash |-> 1, uic |-> ALLOWED_UICS["EURUSD"], side |-> "BUY",
                   units |-> MaxTotalUnits]>>
    /\ pc = [c \in Callers |-> "idle"]
    /\ local = [c \in Callers |-> IdleLocal]
    /\ sz = NoSizing

\* The callers enter as in NextOverlap: nothing keeps two cycles apart.  The
\* run is short: the clock stays within the second it started in.
NextRerun ==
    \/ \E c \in Callers : BeginCycle(c)
    \/ \E c \in Callers : Step(c)
    \/ Scrape

SpecRerun == InitRerun /\ [][NextRerun]_vars

\* A cycle was halted by the consecutive-failure breaker of lines 152-154
\* and its caller has not started another one.
breaker_halted ==
    \E c \in Callers :
        /\ pc[c] \in {"stopped", "off"}
        /\ local[c].stop = "3 consecutive broker failures"

\* C25: the breaker has no automatic reset.  Once it has halted a cycle, the
\* engine writes no Ledger row, evaluates no signal and lets no cycle past
\* the cycle-level guards any more.
C25_BreakerHaltIsFinal ==
    [][breaker_halted
       => /\ executed_orders' = executed_orders
          /\ \A c \in Callers :
                /\ ~(pc[c] \in {"signals", "ordered"} /\ stepped(c))
                /\ pc[c] = "idle" => pc'[c] # "signals"]_vars

\* C26: the in-cycle rejection counter.  It is zero when a cycle starts;
\* recording a rejected order (ENTRY or CLOSE) writes the failed Ledger row
\* and adds one, and the cycle halts with "3 consecutive order rejections"
\* exactly when that makes three; recording an accepted order sets it to
\* zero; no other step of the loop, a skip in particular, changes it or
\* halts for this reason.
C26_RejectionCounter ==
    [][\A c \in Callers :
          LET loc == local[c]
              after == local'[c]
              rejections_stop == "3 consecutive order rejections"
          IN  /\ (pc[c] = "idle" /\ pc'[c] # "idle") => after.order_rejections = 0
              /\ (pc[c] = "ordered" /\ stepped(c))
                 => /\ executed_orders' # << >>
                    /\ last_row(executed_orders').segment_hash = loc.pending.segment_hash
                    /\ IF loc.pending.ok
                       THEN /\ last_row(executed_orders').status = "filled"
                            /\ after.order_rejections = 0
                            /\ pc'[c] = "signals"
                       ELSE /\ last_row(executed_orders').status = "failed"
                            /\ after.order_rejections = loc.order_rejections + 1
                            /\ IF after.order_rejections >= RejectionLimit
                               THEN pc'[c] = "stopped" /\ after.stop = rejections_stop
                               ELSE pc'[c] = "signals" /\ after.stop = Null
              /\ (pc[c] = "signals" /\ stepped(c))
                 => /\ after.order_rejections = loc.order_rejections
                    /\ after.stop # rejections_stop]_vars

\* The third rejection in a row halted a cycle although a skipped signal
\* came between the second and the third: the closes of a position were
\* rejected, the addition had no baseline, the entry was rejected.
C26_ThirdRejectionWitness ==
    \E c \in Callers :
        /\ catalog = LifecycleFeed
        /\ pc[c] = "stopped"
        /\ local[c].stop = "3 consecutive order rejections"
        /\ local[c].order_rejections = RejectionLimit
        /\ [k \in 1 .. Len(local[c].failed) |-> local[c].failed[k].segment_hash] = <<4, 3, 1>>
        /\ local[c].skipped = <<[segment_hash |-> 2, reason |-> "missing baseline"]>>
        /\ last_row(executed_orders) =
              [segment_hash |-> 1, status |-> "failed", error_message |-> "rejected",
               created_at |-> now]

\* The caller's step records the answer to a closing order on the instrument.
close_recorded(c, instrument, ok) ==
    /\ pc[c] = "ordered"
    /\ stepped(c)
    /\ local[c].pending.is_close
    /\ local[c].pending.instrument = instrument
    /\ local[c].pending.ok = ok

\* The caller's step handles an ENTRY of this kind that passed the guards.
entry_handled(c, instrument, direction, is_add) ==
    /\ at_signal(c)
    /\ stepped(c)
    /\ sig_of(current(c)).action = "ENTRY"
    /\ normalize_instrument(sig_of(current(c)).instrument) = instrument
    /\ sig_of(current(c)).direction = direction
    /\ sig_of(current(c)).is_add = is_add

\* C27: the life of a baseline.  Recording an accepted CLOSE leaves the
\* instrument without a baseline in either direction; while a direction has
\* none, an is_add ENTRY for it is skipped with "missing baseline" and places
\* no order, and only a non-add ENTRY of the same instrument and direction
\* (its sizing search) stores one again; a rejected CLOSE and a CLOSE skipped
\* for "no position" leave every baseline as it is, and an is_add ENTRY that
\* finds a stored baseline is not skipped for a missing one.
C27_BaselineLifecycle ==
    [][/\ \A c \in Callers, i \in Instruments :
             /\ close_recorded(c, i, TRUE)
                => \A d \in Directions : baseline_units'[<<i, d>>] = None
             /\ close_recorded(c, i, FALSE) => baseline_units' = baseline_units
       /\ \A c \in Callers :
             (/\ at_signal(c)
              /\ sig_of(current(c)).action \in {"CLOSE_TP", "CLOSE_SL"}
              /\ skip_reason(c) = "no position")
             => baseline_units' = baseline_units
       /\ \A c \in Callers, i \in Instruments, d \in Directions :
             entry_handled(c, i, d, TRUE)
             => IF baseline_units[<<i, d>>] = None
                THEN /\ skip_reason(c) = "missing baseline"
                     /\ executed_orders' # << >>
                     /\ last_row(executed_orders') = skipped_row(c, "missing baseline")
                     /\ orders' = orders
                     /\ baseline_units' = baseline_units
                ELSE skip_reason(c) # "missing baseline"
       /\ \A i \in Instruments, d \in Directions :
             (baseline_units[<<i, d>>] = None /\ baseline_units'[<<i, d>>] # None)
             => \E c \in Callers : entry_handled(c, i, d, FALSE)]_vars

\* An entry stored a baseline in one cycle; in a later cycle the close of the
\* position was accepted and the addition that followed it in the loop was
\* skipped for its missing baseline.
C27_ClearedThenSkippedWitness ==
    /\ catalog = LifecycleFeed
    /\ Len(executed_orders) = 4
    /\ executed_orders[1].segment_hash = 1
    /\ executed_orders[2] = [segment_hash |-> 4, status |-> "filled",
                             error_message |-> Null, created_at |-> executed_orders[2].created_at]
    /\ executed_orders[4].segment_hash = 2
    /\ executed_orders[4].status = "skipped"
    /\ executed_orders[4].error_message = "missing baseline"
    /\ baseline_units[<<"EURUSD", "BUY">>] = None

(***************************************************************************)
(* Sizing without assumptions: claims under SpecSizing.                    *)
(***************************************************************************)
\* The broker's answer to the k-th precheck of the call: the first is the
\* quick check at the ceiling (line 64), the others are asked by the loop.
answer_to(input, k) == IF k = 1 THEN input.quick ELSE input.m[input.probes[k]]

\* The k-th precheck of the call returned a margin within the equity.
verified_at(input, k) ==
    answer_to(input, k) # None /\ answer_to(input, k) <= input.equity

\* The size of the last precheck that was within the equity, None if none.
last_verified(input) ==
    LET ok == {k \in 1 .. Len(input.probes) : verified_at(input, k)}
    IN  IF ok = {} THEN None ELSE input.probes[largest(ok)]

\* A returned size lies in [1, max_units] and was verified by a precheck at
\* exactly that size during the call; the result is the last verified size.
result_verified(input) ==
    /\ input.result # None
       => /\ 1 <= input.result /\ input.result <= input.max_units
          /\ \E k \in 1 .. Len(input.probes) :
                input.probes[k] = input.result /\ verified_at(input, k)
    /\ input.result = last_verified(input)

\* C28 as stated: for any margin function and any pattern of failed
\* prechecks a returned size is in range and verified, and a failed precheck
\* is the last query of the call.
C28_VerifiedAndNoQueryAfterFailure ==
    sz.phase = "done"
    => /\ result_verified(sz)
       /\ \A k \in 1 .. Len(sz.probes) :
             answer_to(sz, k) = None => k = Len(sz.probes)

\* C28 amended: the same, but only a failed precheck of the binary search
\* ends the call; after a failed quick check at the ceiling the search goes
\* on and asks again.
C28_VerifiedAndLoopEndsOnFailure ==
    sz.phase = "done"
    => /\ result_verified(sz)
       /\ \A k \in 2 .. Len(sz.probes) :
             answer_to(sz, k) = None => k = Len(sz.probes)

\* A search over a margin that is not monotone: the quick check failed, size
\* 2 was verified although size 1 is not affordable, the query at size 4
\* failed and the call returned 2.
C28_FailureAfterVerifiedWitness ==
    /\ sz.phase = "done"
    /\ sz.max_units = 5
    /\ sz.quick = None
    /\ sz.probes = <<5, 2, 4>>
    /\ sz.m[1] # None /\ sz.m[1] > sz.equity
    /\ sz.m[4] = None
    /\ sz.result = 2

\* floor(log2(n)) for n >= 1.
RECURSIVE floor_log2(_)
floor_log2(n) == IF n <= 1 THEN 0 ELSE 1 + floor_log2(n \div 2)

\* C29: the search returns for every input.  With max_units <= 0 it returns
\* unset without a margin query; with max_units >= 1 it asks at most
\* floor(log2(max_units + 1)) + 2 times, the first time at the ceiling,
\* whatever the broker answers.
C29_SearchTerminates ==
    /\ sz.phase = "input" => ENABLED RunSizing
    /\ sz.phase = "done"
       => IF sz.max_units <= 0
          THEN sz.result = None /\ sz.probes = << >>
          ELSE /\ Len(sz.probes) >= 1
               /\ sz.probes[1] = sz.max_units
               /\ Len(sz.probes) <= floor_log2(sz.max_units + 1) + 2

\* A call with ceiling 5 that needed all four queries of its bound.
C29_LongestSearchWitness ==
    /\ sz.phase = "done"
    /\ sz.max_units = 5
    /\ sz.probes = <<5, 2, 4, 5>>
    /\ Len(sz.probes) = floor_log2(sz.max_units + 1) + 2

(***************************************************************************)
(* The duplicate guards: a claim under Spec.                               *)
(***************************************************************************)
\* The reasons _note_skip has counted in the caller's cycle.
noted(c) == {local[c].notes[k].reason : k \in 1 .. Len(local[c].notes)}

\* C30: with cycles one at a time the recent-duplicate guard never fires.
\* Whenever was_executed_recent holds for a hash, was_executed holds too; no
\* cycle counts a skip "duplicate_recent"; and a signal that has a Ledger
\* row is skipped by the permanent guard: counted as "duplicate", with no
\* order and no Ledger write.
C30_RecentGuardNeverFires ==
    /\ [](/\ \A h \in segment_hashes :
                was_executed_recent(executed_orders, h, now, RecentWindowSeconds)
                => was_executed(executed_orders, h)
          /\ \A c \in Callers : "duplicate_recent" \notin noted(c))
    /\ [][\A c \in Callers :
             (/\ pc[c] = "signals"
              /\ local[c].signals # << >>
              /\ has_row(executed_orders, current(c).segment_hash)
              /\ stepped(c))
             => /\ local'[c].notes =
                      Append(local[c].notes, [reason |-> "duplicate",
                                              segment_hash |-> current(c).segment_hash])
                /\ local'[c].signals = Tail(local[c].signals)
                /\ orders' = orders
                /\ executed_orders' = executed_orders]_vars

\* A cycle skipped a signal as "duplicate" whose Ledger row is within the
\* window of the recent guard.
C30_RecentRowDuplicateWitness ==
    \E c \in Callers :
        /\ local[c].notes # << >>
        /\ LET note == local[c].notes[Len(local[c].notes)]
           IN  /\ note.reason = "duplicate"
               /\ was_executed_recent(executed_orders, note.segment_hash, now,
                                      RecentWindowSeconds)

(***************************************************************************)
(* Freshness across cycles: a claim under SpecOverlap.                     *)
(***************************************************************************)
\* The hashes the caller's cycle (the running one, or the one whose summary
\* the caller still holds) has skipped as stale.
stale_noted(c) ==
    {local[c].notes[k].segment_hash :
        k \in {j \in 1 .. Len(local[c].notes) : local[c].notes[j].reason = "stale_signal"}}

\* C31: no order is submitted for a signal whose age exceeds the freshness
\* threshold at evaluation, and a signal that a cycle has skipped as stale
\* is not submitted by a later cycle either, also when the scraper has seen
\* the message again and re-inserted it under the same segment_hash.
C31_StaleNeverSubmitted ==
    [][\A c \in Callers :
          (at_signal(c) /\ Len(orders') = Len(orders) + 1)
          => /\ ~is_stale(now, parse_timestamp(current(c).signal_timestamp),
                          settings.signal_freshness_seconds)
             /\ \A d \in Callers : current(c).segment_hash \notin stale_noted(d)]_vars

(***************************************************************************)
(* The order of the batch: a claim under Spec.                             *)
(***************************************************************************)
\* The batch of the cycle in progress (parsed_events does not change while
\* a cycle runs), in the order of the loop.
cycle_batch ==
    select_signals(get_all_trading_events(parsed_events, EventLimit),
                   settings.process_last_n)

\* The batch holds a non-add ENTRY of the instrument and direction that was
\* observed before the signal the caller is at (inserted earlier: a smaller
\* id, so later in the loop) and has no Ledger row, and no CLOSE of the
\* instrument comes before the caller's signal in the loop.
entry_observed_before(c, instrument, direction) ==
    LET at == Len(cycle_batch) - Len(local[c].signals) + 1
    IN  /\ \E k \in at + 1 .. Len(cycle_batch) :
              LET first == sig_of(cycle_batch[k])
              IN  /\ first.action = "ENTRY"
                  /\ ~first.is_add
                  /\ normalize_instrument(first.instrument) = instrument
                  /\ first.direction = direction
                  /\ ~has_row(executed_orders, cycle_batch[k].segment_hash)
        /\ \A k \in 1 .. at - 1 :
              ~(/\ sig_of(cycle_batch[k]).action \in {"CLOSE_TP", "CLOSE_SL"}
                /\ normalize_instrument(sig_of(cycle_batch[k]).instrument) = instrument)

\* C32: an is_add ENTRY whose batch also holds a non-add ENTRY of the same
\* instrument and direction, observed before it, is not skipped for a
\* missing baseline: it is sized from the baseline that entry establishes in
\* the cycle.
C32_AddUsesBaselineOfItsBatch ==
    [][\A c \in Callers, i \in Instruments, d \in Directions :
          (entry_handled(c, i, d, TRUE) /\ entry_observed_before(c, i, d))
          => skip_reason(c) # "missing baseline"]_vars

(***************************************************************************)
(* Prices, sizes and the cycle's summary: claims under Spec.               *)
(***************************************************************************)
\* The skips of the ENTRY branch that come before the price policy.
BeforePrices == BeforeConflict \cup {"conflict position"}

\* C33: an ENTRY without entry_price or sl_price that reaches the price
\* policy (lines 308-317) is skipped with "missing entry/sl", with a Ledger
\* row and no order, unless strict_mode is off and
\* allow_market_without_prices is on.  In that case neither the risk nor the
\* exposure check nor the equity test between them acts on it, and the
\* margin precheck decides: no answer is the skip "margin unavailable" or
\* the stop after the third one, a margin over 3% of the equity is the skip
\* "margin limit", anything else is an order.
C33_MissingPricePolicy ==
    [][\A c \in Callers :
          LET sig == sig_of(current(c))
              after == local'[c]
              relaxed == ~settings.strict_mode /\ settings.allow_market_without_prices
          IN  (/\ at_signal(c)
               /\ sig.action = "ENTRY"
               /\ sig.entry_price = None \/ sig.sl_price = None
               /\ stepped(c)
               /\ skip_reason(c) \notin BeforePrices
               /\ pc'[c] # "raised")
              => IF ~relaxed
                 THEN /\ skip_reason(c) = "missing entry/sl"
                      /\ executed_orders' # << >>
                      /\ last_row(executed_orders') = skipped_row(c, "missing entry/sl")
                      /\ orders' = orders
                      /\ after.margin_required = None
                 ELSE /\ skip_reason(c) \notin {"missing entry/sl", "risk limit",
                                                "exposure limit"}
                      /\ after.stop # "Invalid equity"
                      /\ IF after.margin_required = None
                         THEN /\ orders' = orders
                              /\ \/ skip_reason(c) = "margin unavailable"
                                 \/ /\ pc'[c] = "stopped"
                                    /\ after.stop = "3 consecutive Saxo API errors"
                         ELSE IF after.margin_required * 100 > local[c].equity * MarginLimitPct
                         THEN orders' = orders /\ skip_reason(c) = "margin limit"
                         ELSE /\ Len(orders') = Len(orders) + 1
                              /\ sent.segment_hash = current(c).segment_hash]_vars

\* An order placed for an entry
\* without prices under the relaxed settings, after a precheck within the
\* limit.
C33_RelaxedOrderWitness ==
    \E c \in Callers :
        /\ ~settings.strict_mode /\ settings.allow_market_without_prices
        /\ pc[c] = "ordered"
        /\ ~local[c].pending.is_close
        /\ catalog[local[c].pending.segment_hash].entry_price = None
        /\ local[c].margin_required # None
        /\ local[c].margin_required * 100 <= local[c].equity * MarginLimitPct


\* C34: every ENTRY order has 0 < units <= the baseline stored for its
\* instrument and direction when it is sent, so no more than the
\* max_total_units ceiling its baseline was computed under: a lot ratio over
\* the whole baseline sends no order.
C34_EntryUnitsWithinBaseline ==
    [][\A c \in Callers :
          (entry_ordered(c) /\ Len(orders') = Len(orders) + 1)
          => LET sig == sig_of(current(c))
                 stored == get_baseline_units(baseline_units',
                                              normalize_instrument(sig.instrument),
                                              sig.direction)
             IN  /\ sent.units > 0
                 /\ stored # None
                 /\ sent.units <= stored
                 /\ sent.units <= settings.max_total_units]_vars


\* The counters of the summary (lines 156-159) are as they were.
summary_kept(c) ==
    /\ local'[c].processed = local[c].processed
    /\ local'[c].submitted = local[c].submitted
    /\ local'[c].failed = local[c].failed
    /\ local'[c].skipped = local[c].skipped

\* The step wrote one Ledger row, for this hash.
one_row_written(segment_hash) ==
    /\ Len(executed_orders') = Len(executed_orders) + 1
    /\ SubSeq(executed_orders', 1, Len(executed_orders)) = executed_orders
    /\ last_row(executed_orders').segment_hash = segment_hash

\* The hashes of a list of the summary.
listed(entries) == {entries[k].segment_hash : k \in 1 .. Len(entries)}

\* C35: with cycles one at a time, every signal of the batch is taken from
\* the loop once, and either a guard of lines 169-222 skips it (one more
\* count in the tally; processed, submitted, failed, skipped and the Ledger
\* as they were) or it is processed: processed grows by one, and when the
\* iteration ends without a stop or an exception the signal is in exactly
\* one of submitted, failed and skipped and one Ledger row was written for
\* it.  So a cycle that returns has gone through its whole batch and
\* processed = submitted + |failed| + |skipped|, with a Ledger row for each
\* hash in failed and skipped.
C35_CycleAccounting ==
    /\ [](\A c \in Callers :
            /\ pc[c] \in {"signals", "ordered", "returned"}
               => local[c].processed
                    = local[c].submitted + Len(local[c].failed) + Len(local[c].skipped)
                      + (IF pc[c] = "ordered" THEN 1 ELSE 0)
            /\ pc[c] = "returned"
               => /\ local[c].signals = << >>
                  /\ Cardinality(listed(local[c].failed)) = Len(local[c].failed)
                  /\ Cardinality(listed(local[c].skipped)) = Len(local[c].skipped)
                  /\ listed(local[c].failed) \cap listed(local[c].skipped) = {}
                  /\ \A h \in listed(local[c].failed) \cup listed(local[c].skipped) :
                        has_row(executed_orders, h))
    /\ [][\A c \in Callers :
            LET before == local[c]
                after == local'[c]
                h == current(c).segment_hash
            IN  /\ (pc[c] = "signals" /\ before.signals # << >> /\ stepped(c)
                    /\ guard_of(c) # "ok" /\ pc'[c] # "raised")
                   => /\ summary_kept(c)
                      /\ executed_orders' = executed_orders
                      /\ after.signals = Tail(before.signals)
                      /\ Len(after.notes) = Len(before.notes) + 1
                      /\ after.notes[Len(after.notes)].segment_hash = h
                /\ (at_signal(c) /\ stepped(c))
                   => /\ after.processed = before.processed + 1
                      /\ after.submitted = before.submitted
                      /\ after.failed = before.failed
                      /\ \/ /\ pc'[c] = "signals"
                            /\ after.skipped = Append(before.skipped,
                                                      [segment_hash |-> h,
                                                       reason |-> skip_reason(c)])
                            /\ after.signals = Tail(before.signals)
                            /\ one_row_written(h)
                         \/ /\ pc'[c] = "ordered"
                            /\ after.skipped = before.skipped
                            /\ after.signals = before.signals
                            /\ after.pending.segment_hash = h
                            /\ executed_orders' = executed_orders
                         \/ /\ pc'[c] \in {"stopped", "raised"}
                            /\ executed_orders' = executed_orders
                /\ (pc[c] = "ordered" /\ stepped(c))
                   => /\ after.processed = before.processed
                      /\ after.skipped = before.skipped
                      /\ after.signals = Tail(before.signals)
                      /\ one_row_written(h)
                      /\ \/ /\ after.submitted = before.submitted + 1
                            /\ after.failed = before.failed
                         \/ /\ after.submitted = before.submitted
                            /\ after.failed = Append(before.failed,
                                                     [segment_hash |-> h,
                                                      error |-> "rejected"])]_vars

\* A cycle has returned a summary with an order filled, an order rejected, a
\* recorded skip and a signal skipped by a guard.
C35_MixedSummaryWitness ==
    \E c \in Callers :
        /\ pc[c] = "returned"
        /\ local[c].submitted >= 1
        /\ Len(local[c].failed) >= 1
        /\ Len(local[c].skipped) >= 1
        /\ Len(local[c].notes) > Len(local[c].skipped)
        /\ local[c].processed = 3


(***************************************************************************)
(* The skips of the guards: a claim under SpecOverlap, where a caller      *)
(* still holds the tally of its last cycle when the next cycle starts.     *)
(***************************************************************************)
\* The labels _note_skip counts the guards of lines 169-222 under.
GuardReasons == {GuardOrder[k] : k \in 1 .. Len(GuardOrder)}

\* The hashes a guard skipped in the caller's cycle.
guard_skipped(c) ==
    {local[c].notes[k].segment_hash :
        k \in {j \in 1 .. Len(local[c].notes) : local[c].notes[j].reason \in GuardReasons}}

\* The step of a guard: only the tally and the loop's position change.
guard_frame(c) ==
    (pc[c] = "signals" /\ local[c].signals # << >> /\ guard_of(c) # "ok" /\ stepped(c))
    => /\ UNCHANGED <<store_vars, positions, orders, parsed_events>>
       /\ local'[c].asked = << >>
       /\ local'[c].processed = local[c].processed

\* A skip after the guards writes the row "skipped" with its reason.
recorded_skip(c) ==
    (at_signal(c) /\ skip_reason(c) # Null)
    => /\ executed_orders' # << >>
       /\ last_row(executed_orders') = skipped_row(c, skip_reason(c))

\* C36: a signal skipped by a guard of lines 169-222 leaves the Ledger, the
\* baselines and the daily equity as they were and calls no broker; a skip
\* after the guards writes a Ledger row; and a signal a guard skipped in a
\* cycle that has returned, still without a Ledger row, is in the batch of
\* the next cycle that starts its loop.
C36_GuardSkipsAreRetried ==
    [][\A c \in Callers :
          /\ guard_frame(c)
          /\ recorded_skip(c)
          /\ (pc[c] = "idle" /\ pc'[c] = "signals")
             => \A d \in Callers \ {c} :
                   pc[d] = "returned"
                   => \A h \in guard_skipped(d) :
                         ~has_row(executed_orders, h) => h \in batch_of(local'[c])]_vars


(***************************************************************************)
(* The scheduler thread and the endpoints that start and stop it.          *)
(***************************************************************************)
\* What is left alone by the endpoints and by the thread's loop test.
engine_vars == <<environ, settings, broker_factory, catalog, account, now, ticks, scrapes,
                 cycles, parsed_events, store_vars, positions, orders, sz>>

\* _bg_thread.is_alive(): the thread has been started and run_scheduler has
\* not returned.
bg_thread_alive == pc["run_scheduler"] # "off"

\* POST /bot/start, api.py lines 240-260, with the tokens in place: "running"
\* is saved; the event is cleared and a thread started only when no thread is
\* alive; the answer is {"status": "running"}.
bot_start ==
    /\ running' = TRUE
    /\ IF bg_thread_alive
       THEN UNCHANGED <<stop_event, pc, local>>
       ELSE /\ stop_event' = FALSE
            /\ pc' = [pc EXCEPT !["run_scheduler"] = "idle"]
            /\ local' = [local EXCEPT !["run_scheduler"] = IdleLocal]
    /\ UNCHANGED engine_vars

\* POST /bot/stop, api.py lines 263-271: "running" is saved as False and the
\* event is set; the answer is {"status": "stopped"}.
bot_stop ==
    /\ running' = FALSE
    /\ stop_event' = TRUE
    /\ UNCHANGED <<engine_vars, pc, local>>

\* run_scheduler, scheduler.py lines 44-71: the event is not set and
\* settings["running"] is true, so the thread runs a cycle.
SchedulerCycle ==
    /\ ~stop_event
    /\ running
    /\ BeginCycle("run_scheduler")

\* Lines 44 and 76: stop_event.wait returns at once when the event is set,
\* the loop test fails and run_scheduler returns: the thread ends.
SchedulerExit ==
    /\ pc["run_scheduler"] = "idle"
    /\ stop_event
    /\ pc' = [pc EXCEPT !["run_scheduler"] = "off"]
    /\ UNCHANGED <<engine_vars, running, stop_event, local>>

\* The API process after startup: the feed closes a short USDJPY position
\* and opens a long one; the account answers every call and no cycle stops.
InitScheduler ==
    /\ InitEngine(Scenario(SimEnviron, LiveSettings, "saxo_aware", CloseFeed, ShortBooks,
                           ExampleAccount))
    /\ sz = NoSizing

NextScheduler ==
    \/ bot_start
    \/ bot_stop
    \/ SchedulerCycle
    \/ SchedulerExit
    \/ GuardSignal("run_scheduler")
    \/ CloseSignal("run_scheduler")
    \/ EntrySignal("run_scheduler")
    \/ RecordOrder("run_scheduler")
    \/ FinishCycle("run_scheduler")
    \/ Resume("run_scheduler")
    \/ Scrape

SpecScheduler == InitScheduler /\ [][NextScheduler]_vars

\* C37: from the answer "running" of POST /bot/start (or the startup hook,
\* which does the same) to the next POST /bot/stop the setting "running" is
\* true, and all that time a scheduler thread is alive; also when the start
\* came right after a stop the thread had not observed yet.
C37_StartedSchedulerAlive == running => bg_thread_alive


(***************************************************************************)
(* Broker resolution: a claim under Spec.                                  *)
(***************************************************************************)
\* The caller's step entered run_execution_cycle with both environment
\* gates of lines 94-97 satisfied.
entered_past_gate(c) ==
    /\ pc[c] = "idle"
    /\ pc'[c] \notin {"idle", "off"}
    /\ lower(environ.SAXO_ENV) = "sim"
    /\ environ.BOT_ENABLED = "true"

\* C38: past the environment gate, a cycle configured for the broker "saxo"
\* gets a broker object named "saxo" from get_broker and goes on to the
\* equity fetch: it does not stop with "Unsupported broker", and it leaves
\* with an exception only when the equity request raises one.  Only another
\* configured broker stops with "Unsupported broker".
C38_SaxoBrokerResolved ==
    [][\A c \in Callers :
          entered_past_gate(c)
          => /\ settings.broker = "saxo"
                => /\ local'[c].stop # "Unsupported broker"
                   /\ pc'[c] = "raised" => EquityRaises \in account.equities
             /\ (pc'[c] = "stopped" /\ local'[c].stop = "Unsupported broker")
                => settings.broker # "saxo"]_vars

====
